---- MODULE Spec2Model ----
(***************************************************************************)
(* fsdb: a key-value store on the file system (package local) and its      *)
(* hybrid tier (package hybrid: local store + remote bucket + uploader).   *)
(*                                                                         *)
(* The local operations are modelled at the granularity of the file-system *)
(* calls they make on the entry directory (Lstat, Open, MkdirAll, Rename,  *)
(* Remove, RemoveAll); each call is one atomic step, so that every         *)
(* interleaving of concurrent operations is a behaviour of the model.      *)
(***************************************************************************)
EXTENDS Integers, Sequences, FiniteSets, TLC

VARIABLES
    fs,       \* the data root: entry directory -> its existence and files
    proc,     \* every goroutine's position and local variables
    gh,       \* history of the entry directories (ghost state of the claims)
    bucket,   \* the remote bucket: remote name -> object
    locks,    \* the row lock: key -> the goroutine holding its lock, or 0
    hy,       \* the hybrid store's goroutines: position in the hybrid code
    scan,     \* the scan loop of startScanLoop and its counters
    opts,     \* the options the stores were opened with
    latest,   \* key -> the value of the hybrid Write that returned last (ghost)
    ctx,      \* the context of the calls in progress: "live" or "done"
    rl,       \* a RowLock of package rowlock and the goroutines calling it
    eb,       \* an ErrBatch of package errbatch and the calls made on it
    dk,       \* the last call of Options.GetDirForKey and its result
    pl        \* a Pool of package pool and the last call made on it

hvars == <<bucket, locks, hy, scan, opts, latest, ctx, rl, eb, dk, pl>>
vars == <<fs, proc, gh, bucket, locks, hy, scan, opts, latest, ctx, rl, eb, dk, pl>>

----------------------------------------------------------------------------
(* Bounds of the model *)

\* number of goroutines calling the local store directly
NClients == 2
\* number of operations the client goroutines issue altogether
MaxOps == 3
\* number of goroutines calling the hybrid store: one that writes and the
\* others, which read
NHClients == 2
\* number of operations each client of the hybrid store issues
MaxHOps == 2
\* number of upload workers (Options.GetUploadThreadNum)
NWorkers == 1
\* number of times the ticker of the scan loop fires
MaxCycles == 2
\* number of Add calls made on the ErrBatch
MaxAdds == 3
\* number of goroutines calling the RowLock
NRowClients == 2
\* number of Lock calls each of them makes
MaxRowOps == 2
\* the maxSize of the Pool under test, and the number of calls made on it
PoolMaxSize == 2
MaxPoolOps == 5
\* the number of hex characters of the longest hash, and the largest
\* directory level
MaxHashChars == 6
MaxDirLevel == 4

----------------------------------------------------------------------------
(* Keys, values, files *)

LClients == 1 .. NClients
HClients == (NClients + 1) .. (NClients + NHClients)
Workers == (NClients + NHClients + 1) .. (NClients + NHClients + NWorkers)
HThreads == HClients \cup Workers
HWriters == {NClients + 1}
HReaders == HClients \ HWriters
Threads == LClients \cup HThreads

\* k1 and k2 have the same hash (one entry directory), k3 another one
Keys == {"k1", "k2", "k3"}
\* the keys and values the clients of the local store use
LKeys == {"k1", "k2"}

\* the empty value, and two values with the same CRC-32C (0x2cf9fa0c)
VEmpty == << >>
VA == <<235, 114, 178, 28, 5>>
VB == <<83, 116, 152, 208, 61>>
Values == {VEmpty, VA, VB}
LValues == {VEmpty, VA}
\* the keys and values the clients of the hybrid store use
HKeys == {"k3"}
HValues == Values

\* the goroutines and the rows of the RowLock
RowClients == 1 .. NRowClients
Rows == {"r1", "r2"}

KeyFilename == "key"
DataFilename == "data"
GzipDataFilename == "data.gz"
Filenames == {KeyFilename, DataFilename, GzipDataFilename}

\* the entry directory of a key: its hash decides it
GetDirForKey(key) == IF key = "k3" THEN "d2" ELSE "d1"
Dirs == {GetDirForKey(k) : k \in Keys}

\* a file is absent, or holds one content
Absent == << >>
File(c) == <<c>>
Exists(f) == Len(f) = 1
Content(f) == f[1]

EmptyDir == [f \in Filenames |-> Absent]

\* gzip framing: the two magic bytes of a gzip member, then the payload
Gzip(bytes) == <<31, 139>> \o bytes
IsGzip(bytes) == Len(bytes) >= 2 /\ bytes[1] = 31 /\ bytes[2] = 139
Gunzip(bytes) == SubSeq(bytes, 3, Len(bytes))

\* the data file a handle with preference useGzip writes, and the other one
DataName(useGzip) == IF useGzip THEN GzipDataFilename ELSE DataFilename
OtherName(useGzip) == IF useGzip THEN DataFilename ELSE GzipDataFilename

Mutating == {"Write", "Delete"}

NoEntry == << >>

----------------------------------------------------------------------------
(* State *)

\* KeyCollisionError{NewKey, OldKey}; no collision is the pair of empty keys
KeyCollisionError(new, old) == [NewKey |-> new, OldKey |-> old]
NoCollision == KeyCollisionError("", "")

\* no staging directory
NoTemp == [exists |-> FALSE, files |-> {}]

NoHistory ==
    [lastw |-> NoEntry, overl |-> FALSE, mixed |-> FALSE, switched |-> FALSE]

Blank ==
    [ pc |-> "idle", op |-> "none", key |-> "k1", val |-> VEmpty,
      useGzip |-> FALSE, err |-> "nil", out |-> VEmpty, coll |-> NoCollision,
      names |-> {}, n |-> 0,
      \* the staging directory of the Write in progress
      tmp |-> NoTemp,
      \* ghost fields: the history of the directory when the operation was
      \* called (pre, preDel), whether its directory changed during it
      \* (same), whether a Write or Delete of its directory was in progress
      \* during it (dist), for a Read the values it may return (cands), the
      \* number of Writes and Deletes called during it (ow)
      pre |-> NoHistory, preDel |-> FALSE, same |-> TRUE,
      dist |-> FALSE, cands |-> {}, ow |-> 0 ]

\* DefaultNameFunc: the name of the object of a key in the bucket
GetRemoteName(key) == <<"fsdb/data/", key, ".gz">>
RemoteNames == {GetRemoteName(k) : k \in HKeys}

\* a goroutine of the hybrid store outside any operation
HBlank ==
    [ pc |-> "idle", op |-> "none", key |-> "k3", val |-> VEmpty,
      remoteData |-> VEmpty, oldCrc |-> <<0, 0>>, held |-> FALSE,
      err |-> "nil", out |-> VEmpty, n |-> 0,
      \* the errors of the ErrBatch a Delete returned
      batch |-> << >>,
      \* ghost fields: what latest held for the key when the operation was
      \* called (since), and what the re-check of a Read ("hit", "filled")
      \* or of the last uploadKey ("same", "kept") found (fill), whether a
      \* Delete of the key had returned nil when the operation was called
      \* (gone)
      since |-> << >>, fill |-> "none", gone |-> FALSE ]

\* the scan loop waiting for its ticker, and the counters it logs
ScanIdle ==
    [ pc |-> "wait", todo |-> << >>, key |-> "k3", cycles |-> 0,
      scanned |-> 0, skipped |-> 0, uploaded |-> 0, failed |-> 0 ]

\* LockerPoolMaxSize of package rowlock
LockerPoolMaxSize == 10

\* a goroutine outside any call of the RowLock
RowIdle ==
    [ pc |-> "idle", op |-> "none", row |-> "r1", newLocker |-> 0,
      locker |-> 0, n |-> 0,
      \* ghost: the row had no locker when getLocker was entered
      fresh |-> FALSE ]

\* NewRowLock: no locker in the map (0) or in the pool; the lockers are
\* numbered as the generator makes them (made), locked is the set of the
\* mutexes that are locked, g the goroutines calling the RowLock
NewRowLock ==
    [ locks |-> [r \in Rows |-> 0], pool |-> << >>, made |-> 0,
      locked |-> {}, g |-> [t \in RowClients |-> RowIdle] ]

\* GetDirForKey was not called yet
NoDirCall == [hash |-> << >>, dirLevel |-> 0, path |-> << >>, err |-> "none"]

\* NewPool(maxSize): head and tail are nil (0), no node was made; nodes
\* are the nodes made so far, each with its resource and its next pointer,
\* size the counter of the pool, op, arg and ret the last call made on the
\* pool and what it returned, n the number of calls
NewPool(maxSize) ==
    [ size |-> 0, maxSize |-> maxSize, head |-> 0, tail |-> 0,
      nodes |-> << >>, op |-> "none", arg |-> 0, ret |-> 0, n |-> 0,
      \* ghost: the resources stored before the last call, oldest first
      before |-> << >> ]

\* NewErrBatch: no error in the batch; added is what was passed to Add so
\* far (ghost), ret what Compile returned since the last Add
NewErrBatch ==
    [ errors |-> << >>, added |-> << >>, ret |-> << >> ]

\* an empty data root, an empty bucket, nothing in progress
InitStores ==
    /\ fs = [d \in Dirs |-> [exists |-> FALSE, files |-> EmptyDir]]
    /\ proc = [t \in Threads |-> Blank]
    /\ gh = [d \in Dirs |->
               [lastw |-> NoEntry, overl |-> FALSE, mixed |-> FALSE,
                switched |-> FALSE, del |-> {}, wr |-> {}]]
    /\ bucket = [name \in RemoteNames |-> Absent]
    /\ locks = [k \in HKeys |-> 0]
    /\ hy = [t \in HThreads |-> HBlank]
    /\ scan = ScanIdle
    /\ latest = [k \in HKeys |-> << >>]
    /\ ctx = "live"
    /\ rl = NewRowLock
    /\ eb = NewErrBatch
    /\ dk = NoDirCall
    /\ pl = NewPool(PoolMaxSize)

\* the default options (DefaultUseGzip, DefaultUseLock, UploadAll as the skip
\* function: skip is the set of keys the skip function returns true for),
\* with a bucket whose calls do not fail (faulty)
DefaultOptions ==
    [useGzip |-> FALSE, useLock |-> TRUE, skip |-> {}, faulty |-> FALSE]

\* the stores as they are opened on an empty data root and an empty bucket,
\* with the default options
Init ==
    /\ InitStores
    /\ opts = DefaultOptions

Dir(t) == GetDirForKey(proc[t].key)
Running(t) == proc[t].pc \notin {"idle", "ret"}

\* the goroutines with a Write or Delete in progress on directory d
InFlightMut(d) ==
    {u \in Threads : Running(u) /\ proc[u].op \in Mutating
                     /\ GetDirForKey(proc[u].key) = d}

\* the value a quiescent directory holds for key, if it holds one
CommittedVal(d, key) ==
    LET f == fs[d].files IN
    IF f[KeyFilename] = File(key) /\ Exists(f[DataFilename])
       /\ ~Exists(f[GzipDataFilename])
    THEN {Content(f[DataFilename])}
    ELSE IF f[KeyFilename] = File(key) /\ Exists(f[GzipDataFilename])
            /\ ~Exists(f[DataFilename])
    THEN {Gunzip(Content(f[GzipDataFilename]))}
    ELSE {}

Ret(t, err, out) ==
    [proc EXCEPT ![t].pc = "ret", ![t].err = err, ![t].out = out]

\* ghost: p, where every operation a client of the local store has in
\* progress on directory d notes in its field same whether this step changes
\* the directory
Mark(d, p) ==
    [u \in Threads |->
        IF u \in LClients /\ Running(u) /\ GetDirForKey(proc[u].key) = d
           /\ fs'[d] # fs[d]
        THEN [p[u] EXCEPT !.same = FALSE]
        ELSE p[u]]

Goto(t, pc) == [proc EXCEPT ![t].pc = pc]

\* mutant of WRet: the staging directory is left behind
WRetLeavesTemp(t, err) == Ret(t, err, VEmpty)

\* Write returns err after getTempDir: the deferred os.RemoveAll(tmpdir)
\* removes the staging directory with what is left in it
WRet(t, err) == [Ret(t, err, VEmpty) EXCEPT ![t].tmp = NoTemp]

\* getTempDir makes a fresh staging directory, which no other goroutine
\* sees, and Write creates the temporary key file and data file in it
Stage(t, pc) ==
    [proc EXCEPT ![t].pc = pc,
                 ![t].tmp = [exists |-> TRUE,
                             files |-> {KeyFilename, DataName(proc[t].useGzip)}]]

\* ghost: the history g when t is a client of the local store; the history
\* records the operations of these clients only
Hist(t, g) == IF t \in LClients THEN g ELSE gh

----------------------------------------------------------------------------
(* Entering a local operation *)

FirstPc(op) ==
    IF op = "Read" THEN "r_lstat"
    ELSE IF op = "Write" THEN "w_lstat" ELSE "d_lstat"

\* proc after goroutine t enters local operation op(key, val) on a handle of
\* the store opened with compression preference useGzip (Options.GetUseGzip)
BeginLocal(t, op, key, val, useGzip) ==
    LET d == GetDirForKey(key)
        others == InFlightMut(d) \ {t}
    IN
    [u \in Threads |->
        IF u = t
        THEN [proc[t] EXCEPT
                !.pc = FirstPc(op), !.op = op, !.key = key, !.val = val,
                !.useGzip = useGzip, !.err = "nil", !.out = VEmpty,
                !.coll = NoCollision, !.names = {},
                !.pre = [lastw |-> gh[d].lastw, overl |-> gh[d].overl,
                         mixed |-> gh[d].mixed, switched |-> gh[d].switched],
                !.preDel = (key \in gh[d].del),
                !.same = TRUE, !.dist = (others # {}), !.ow = 0,
                !.cands = IF op = "Read" /\ others = {}
                          THEN CommittedVal(d, key) ELSE {}]
        ELSE IF Running(u) /\ GetDirForKey(proc[u].key) = d
                /\ op \in Mutating
        THEN [proc[u] EXCEPT
                !.dist = TRUE,
                !.ow = IF proc[u].op = "Read" THEN @ + 1 ELSE @,
                !.cands = IF op = "Write" /\ key = proc[u].key /\ @ # {}
                          THEN @ \cup {val} ELSE {}]
        ELSE proc[u]]

\* the history of directory d after op(key) is entered by t
BeginGhost(t, op, key, val) ==
    LET d == GetDirForKey(key)
        others == InFlightMut(d) \ {t}
    IN
    [gh EXCEPT
        ![d].del = IF op = "Write" THEN @ \ {key} ELSE @,
        ![d].wr = IF op = "Write" THEN @ \cup {<<key, val>>} ELSE @,
        ![d].overl = @ \/ (op \in Mutating /\ others # {}),
        ![d].mixed = @ \/ (op \in Mutating /\
                           \E u \in others :
                              ~(op = "Write" /\ proc[u].op = "Write"
                                /\ proc[u].key = key))]

\* the number of operations the goroutines of T have issued
RECURSIVE Issued(_)
Issued(T) ==
    IF T = {} THEN 0
    ELSE LET t == CHOOSE x \in T : TRUE IN proc[t].n + Issued(T \ {t})

\* a client goroutine calls Read, Write or Delete of the local store
StartOp(t, op, key, val, useGzip) ==
    /\ ~Running(t)
    /\ Issued(LClients) < MaxOps
    /\ proc' = [BeginLocal(t, op, key, val, useGzip) EXCEPT ![t].n = @ + 1]
    /\ gh' = BeginGhost(t, op, key, val)
    /\ UNCHANGED <<fs, hvars>>

----------------------------------------------------------------------------
(* Helpers of package local *)

\* readKey: the key file's bytes, or a not-exist error from os.Open
readKey(d) ==
    IF Exists(fs[d].files[KeyFilename])
    THEN [err |-> "nil", key |-> Content(fs[d].files[KeyFilename])]
    ELSE [err |-> "ENOENT", key |-> "k1"]

\* mutant of checkKeyCollision: the stored key is not compared
checkKeyCollisionNoCompare(key, d) ==
    [err |-> readKey(d).err, coll |-> NoCollision]

\* checkKeyCollision: nil, the error of readKey, or a KeyCollisionError
checkKeyCollision(key, d) ==
    LET r == readKey(d) IN
    IF r.err # "nil" THEN [err |-> r.err, coll |-> NoCollision]
    ELSE IF r.key = key THEN [err |-> "nil", coll |-> NoCollision]
    ELSE [err |-> "KeyCollision", coll |-> KeyCollisionError(key, r.key)]

\* readPlain: a reader over the data file as it is
readPlain(d) ==
    IF Exists(fs[d].files[DataFilename])
    THEN [err |-> "nil", out |-> Content(fs[d].files[DataFilename])]
    ELSE [err |-> "ENOENT", out |-> VEmpty]

\* mutant of readGzip: the compressed bytes are returned as they are
readGzipRaw(d) ==
    IF Exists(fs[d].files[GzipDataFilename])
    THEN [err |-> "nil", out |-> Content(fs[d].files[GzipDataFilename])]
    ELSE [err |-> "ENOENT", out |-> VEmpty]

\* readGzip: a decompressing reader over the data.gz file
readGzip(d) ==
    IF ~Exists(fs[d].files[GzipDataFilename])
    THEN [err |-> "ENOENT", out |-> VEmpty]
    ELSE IF ~IsGzip(Content(fs[d].files[GzipDataFilename]))
    THEN [err |-> "gzip.ErrHeader", out |-> VEmpty]
    ELSE [err |-> "nil", out |-> Gunzip(Content(fs[d].files[GzipDataFilename]))]

----------------------------------------------------------------------------
(* local Read *)

\* os.Lstat(keyFile): no key file is NoSuchKey
RLstat(t) ==
    /\ proc[t].pc = "r_lstat"
    /\ UNCHANGED <<fs, gh>>
    /\ proc' = IF Exists(fs[Dir(t)].files[KeyFilename])
               THEN Goto(t, "r_readkey")
               ELSE Ret(t, "NoSuchKey", VEmpty)

\* checkKeyCollision(key, keyFile)
RCheckKey(t) ==
    /\ proc[t].pc = "r_readkey"
    /\ UNCHANGED <<fs, gh>>
    /\ LET c == checkKeyCollision(proc[t].key, Dir(t)) IN
       proc' = IF c.err = "nil"
               THEN Goto(t, "r_first")
               ELSE [Ret(t, c.err, VEmpty) EXCEPT ![t].coll = c.coll]

\* the data file of the handle's preference is tried first
RFirst(t) ==
    /\ proc[t].pc = "r_first"
    /\ UNCHANGED <<fs, gh>>
    /\ LET r == IF proc[t].useGzip THEN readGzip(Dir(t)) ELSE readPlain(Dir(t)) IN
       proc' = IF r.err = "ENOENT"
               THEN Goto(t, "r_second")
               ELSE Ret(t, r.err, r.out)

\* mutant of RSecond: the not-exist error of the second variant is returned
\* as it is
RSecondNotExist(t) ==
    /\ proc[t].pc = "r_second"
    /\ UNCHANGED <<fs, gh>>
    /\ LET r == IF proc[t].useGzip THEN readPlain(Dir(t)) ELSE readGzip(Dir(t)) IN
       proc' = Ret(t, r.err, r.out)

\* then the other variant; neither is NoSuchKey
RSecond(t) ==
    /\ proc[t].pc = "r_second"
    /\ UNCHANGED <<fs, gh>>
    /\ LET r == IF proc[t].useGzip THEN readPlain(Dir(t)) ELSE readGzip(Dir(t)) IN
       proc' = IF r.err = "ENOENT"
               THEN Ret(t, "NoSuchKey", VEmpty)
               ELSE Ret(t, r.err, r.out)

----------------------------------------------------------------------------
(* local Write *)

\* os.Lstat(keyFile): the collision check runs only when the key file exists
WLstat(t) ==
    /\ proc[t].pc = "w_lstat"
    /\ UNCHANGED <<fs, gh>>
    /\ proc' = IF Exists(fs[Dir(t)].files[KeyFilename])
               THEN Goto(t, "w_readkey")
               ELSE Stage(t, "w_mkdir")

\* checkKeyCollision, then the key and the data are staged in a fresh
\* temporary directory, which no other goroutine sees
WCheckKey(t) ==
    /\ proc[t].pc = "w_readkey"
    /\ UNCHANGED <<fs, gh>>
    /\ LET c == checkKeyCollision(proc[t].key, Dir(t)) IN
       proc' = IF c.err = "nil"
               THEN Stage(t, "w_mkdir")
               ELSE [Ret(t, c.err, VEmpty) EXCEPT ![t].coll = c.coll]

\* the staged data file: the value, gzipped when the handle compresses
StagedData(t) ==
    IF proc[t].useGzip THEN Gzip(proc[t].val) ELSE proc[t].val

\* os.MkdirAll(dir)
WMkdir(t) ==
    /\ proc[t].pc = "w_mkdir"
    /\ fs' = [fs EXCEPT ![Dir(t)].exists = TRUE]
    /\ proc' = Mark(Dir(t), Goto(t, "w_rename_data"))
    /\ UNCHANGED gh

\* mutant of WRenameData: the staged data file is not moved
WRenameDataStaysStaged(t) ==
    /\ proc[t].pc = "w_rename_data"
    /\ proc' = Goto(t, "w_remove_other")
    /\ UNCHANGED <<fs, gh>>

\* os.Rename(tmpDataFile, dataFile)
WRenameData(t) ==
    /\ proc[t].pc = "w_rename_data"
    /\ IF fs[Dir(t)].exists
       THEN /\ fs' = [fs EXCEPT ![Dir(t)].files[DataName(proc[t].useGzip)] =
                                    File(StagedData(t))]
            /\ proc' = Mark(Dir(t),
                             [Goto(t, "w_remove_other") EXCEPT
                                ![t].tmp.files = {KeyFilename}])
            /\ UNCHANGED gh
       ELSE /\ UNCHANGED <<fs, gh>>
            /\ proc' = WRet(t, "ENOENT")

\* mutant of WRemoveOther: the data file of the other variant stays
WRemoveOtherSkipped(t) ==
    /\ proc[t].pc = "w_remove_other"
    /\ proc' = Goto(t, "w_rename_key")
    /\ UNCHANGED <<fs, gh>>

\* os.Remove of the data file of the other variant; not-exist is ignored
WRemoveOther(t) ==
    /\ proc[t].pc = "w_remove_other"
    /\ fs' = [fs EXCEPT ![Dir(t)].files[OtherName(proc[t].useGzip)] = Absent]
    /\ proc' = Mark(Dir(t), Goto(t, "w_rename_key"))
    /\ UNCHANGED gh

\* os.Rename(tmpKeyFile, keyFile): the Write returns
WRenameKey(t) ==
    /\ proc[t].pc = "w_rename_key"
    /\ IF fs[Dir(t)].exists
       THEN /\ fs' = [fs EXCEPT ![Dir(t)].files[KeyFilename] = File(proc[t].key)]
            /\ proc' = Mark(Dir(t), WRet(t, "nil"))
            /\ gh' = Hist(t, [gh EXCEPT
                         ![Dir(t)].lastw =
                             <<[key |-> proc[t].key, val |-> proc[t].val,
                                useGzip |-> proc[t].useGzip]>>,
                         ![Dir(t)].switched =
                             (gh[Dir(t)].lastw # NoEntry /\
                              gh[Dir(t)].lastw[1].useGzip # proc[t].useGzip)])
       ELSE /\ UNCHANGED <<fs, gh>>
            /\ proc' = WRet(t, "ENOENT")

----------------------------------------------------------------------------
(* local Delete *)

\* mutant of DLstat: a missing key file is reported as the I/O error
DLstatIoError(t) ==
    /\ proc[t].pc = "d_lstat"
    /\ UNCHANGED <<fs, gh>>
    /\ proc' = IF Exists(fs[Dir(t)].files[KeyFilename])
               THEN Goto(t, "d_readkey")
               ELSE Ret(t, "ENOENT", VEmpty)

\* os.Lstat(keyFile): no key file is NoSuchKey
DLstat(t) ==
    /\ proc[t].pc = "d_lstat"
    /\ UNCHANGED <<fs, gh>>
    /\ proc' = IF Exists(fs[Dir(t)].files[KeyFilename])
               THEN Goto(t, "d_readkey")
               ELSE Ret(t, "NoSuchKey", VEmpty)

DCheckKey(t) ==
    /\ proc[t].pc = "d_readkey"
    /\ UNCHANGED <<fs, gh>>
    /\ LET c == checkKeyCollision(proc[t].key, Dir(t)) IN
       proc' = IF c.err = "nil"
               THEN Goto(t, "d_remove")
               ELSE [Ret(t, c.err, VEmpty) EXCEPT ![t].coll = c.coll]

Present(d) == {f \in Filenames : Exists(fs[d].files[f])}

\* os.RemoveAll(dir) begins: a directory that is gone or empty is done with
\* at once, otherwise the names in it are read
DRemoveAll(t) ==
    /\ proc[t].pc = "d_remove"
    /\ IF ~fs[Dir(t)].exists \/ Present(Dir(t)) = {}
       THEN /\ fs' = [fs EXCEPT ![Dir(t)].exists = FALSE]
            /\ proc' = Mark(Dir(t), Ret(t, "nil", VEmpty))
            /\ gh' = Hist(t, [gh EXCEPT ![Dir(t)].lastw = NoEntry,
                                         ![Dir(t)].switched = FALSE,
                                         ![Dir(t)].del = @ \cup {proc[t].key}])
       ELSE /\ proc' = [proc EXCEPT ![t].pc = "d_unlink",
                                    ![t].names = Present(Dir(t))]
            /\ UNCHANGED <<fs, gh>>

\* os.RemoveAll removes the files it read, in the order the directory
\* gave them; a file that is gone already is no error
DUnlink(t, name) ==
    /\ proc[t].pc = "d_unlink"
    /\ name \in proc[t].names
    /\ fs' = [fs EXCEPT ![Dir(t)].files[name] = Absent]
    /\ proc' = Mark(Dir(t),
                    [proc EXCEPT ![t].names = @ \ {name},
                                 ![t].pc = IF proc[t].names = {name}
                                           THEN "d_rmdir" ELSE "d_unlink"])
    /\ UNCHANGED gh

\* os.RemoveAll ends by removing the directory, which fails when a file
\* was put there meanwhile
DRmdir(t) ==
    /\ proc[t].pc = "d_rmdir"
    /\ IF ~fs[Dir(t)].exists \/ Present(Dir(t)) = {}
       THEN /\ fs' = [fs EXCEPT ![Dir(t)].exists = FALSE]
            /\ proc' = Mark(Dir(t), Ret(t, "nil", VEmpty))
            /\ gh' = Hist(t, [gh EXCEPT ![Dir(t)].lastw = NoEntry,
                                         ![Dir(t)].switched = FALSE,
                                         ![Dir(t)].del = @ \cup {proc[t].key}])
       ELSE /\ UNCHANGED <<fs, gh>>
            /\ proc' = Ret(t, "ENOTEMPTY", VEmpty)

----------------------------------------------------------------------------
(* The local store under concurrent clients *)

\* one file-system call of the local operation goroutine t is in
LocalStep(t) ==
    /\ \/ RLstat(t) \/ RCheckKey(t) \/ RFirst(t) \/ RSecond(t)
       \/ WLstat(t) \/ WCheckKey(t) \/ WMkdir(t) \/ WRenameData(t)
       \/ WRemoveOther(t) \/ WRenameKey(t)
       \/ DLstat(t) \/ DCheckKey(t) \/ DRemoveAll(t) \/ DRmdir(t)
       \/ \E name \in Filenames : DUnlink(t, name)
    /\ UNCHANGED hvars

Next ==
    \/ \E t \in LClients, op \in {"Read", "Delete"}, key \in LKeys,
          useGzip \in BOOLEAN :
          StartOp(t, op, key, VEmpty, useGzip)
    \/ \E t \in LClients, key \in LKeys, val \in LValues, useGzip \in BOOLEAN :
          StartOp(t, "Write", key, val, useGzip)
    \/ \E t \in LClients : LocalStep(t)

Spec == Init /\ [][Next]_vars

----------------------------------------------------------------------------
(* Claims about the local store *)

Done(t) == proc[t].pc = "ret"

\* the history of the directory of t when its operation was called
Pre(t) == proc[t].pre

\* the key committed in the directory of t when its operation was called
PreKey(t) == IF Pre(t).lastw = NoEntry THEN "" ELSE Pre(t).lastw[1].key

\* the operation of t ran alone on its directory: no Write or Delete of the
\* directory was in progress during it, and no two of them overlapped before
Sequential(t) == Done(t) /\ ~proc[t].dist /\ ~Pre(t).overl

\* the directory of t held the value of a Write of t's key that returned nil
HoldsKey(t) == PreKey(t) = proc[t].key

\* C1: after Write(k, v) returned nil, a Read(k) with no Write or Delete of
\* k in between returns nil and exactly v, for every key and value (the
\* empty one too) and either compression preference
C1_WriteReadRoundTrip ==
    \A t \in LClients :
        (Sequential(t) /\ proc[t].op = "Read" /\ HoldsKey(t))
        => (proc[t].err = "nil" /\ proc[t].out = Pre(t).lastw[1].val)

\* a Read returns the empty value from an entry stored compressed
C1_Witness ==
    \E t \in LClients :
        /\ Sequential(t) /\ proc[t].op = "Read" /\ HoldsKey(t)
        /\ Pre(t).lastw[1].val = VEmpty /\ Pre(t).lastw[1].useGzip
        /\ proc[t].err = "nil" /\ proc[t].out = VEmpty

\* C2 (as claimed): a Read(k) that runs concurrently with one overwriting
\* Write(k, new) of an existing key, and with nothing else, returns nil and
\* either the previous value or the new one
C2_ReadDuringOverwrite ==
    \A t \in LClients :
        (Done(t) /\ proc[t].op = "Read" /\ proc[t].cands # {} /\ proc[t].ow = 1)
        => (proc[t].err = "nil" /\ proc[t].out \in proc[t].cands)

\* C3 (as claimed): when Writes of one key overlapped and all have returned,
\* a Read of the key returns the value of the Write that returned last
C3_LastWriterWins ==
    \A t \in LClients :
        (Done(t) /\ proc[t].op = "Read" /\ ~proc[t].dist
         /\ Pre(t).overl /\ ~Pre(t).mixed /\ HoldsKey(t))
        => (proc[t].err = "nil" /\ proc[t].out = Pre(t).lastw[1].val)

C5_NoSilentOverwrite ==
    \A t \in LClients :
        (Done(t) /\ proc[t].op = "Read" /\ proc[t].err = "nil")
        => <<proc[t].key, proc[t].out>> \in gh[Dir(t)].wr

\* C6 (as claimed): Delete(k) of a key that is not committed returns NoSuchKey
\* and changes nothing; Delete(k) of a committed key returns nil, and from
\* then on Read(k) and Delete(k) return NoSuchKey until the next Write(k)
C6_DeleteAsClaimed ==
    \A t \in LClients :
        /\ (Sequential(t) /\ proc[t].op = "Delete" /\ PreKey(t) # proc[t].key)
           => (proc[t].err = "NoSuchKey" /\ proc[t].same)
        /\ (Sequential(t) /\ proc[t].op = "Delete" /\ PreKey(t) = proc[t].key)
           => proc[t].err = "nil"
        /\ (Sequential(t) /\ proc[t].op \in {"Read", "Delete"} /\ proc[t].preDel)
           => proc[t].err = "NoSuchKey"

\* C6 (amended): Delete(k) returns NoSuchKey and changes nothing when the
\* entry directory of k holds no key file; Delete(k) of a committed key
\* returns nil, and from then on Read(k) and Delete(k) return NoSuchKey until
\* the next Write(k), except that they return KeyCollision while a key with
\* the same hash is committed
C6_Delete ==
    \A t \in LClients :
        /\ (Sequential(t) /\ proc[t].op = "Delete" /\ PreKey(t) = "")
           => (proc[t].err = "NoSuchKey" /\ proc[t].same)
        /\ (Sequential(t) /\ proc[t].op = "Delete" /\ PreKey(t) = proc[t].key)
           => (proc[t].err = "nil" /\ ~proc[t].same)
        /\ (Sequential(t) /\ proc[t].op \in {"Read", "Delete"} /\ proc[t].preDel)
           => proc[t].err = IF PreKey(t) = "" THEN "NoSuchKey"
                            ELSE "KeyCollision"

\* a Read of a deleted key returns NoSuchKey
C6_Witness ==
    \E t \in LClients :
        /\ Sequential(t) /\ proc[t].op = "Read" /\ proc[t].preDel
        /\ PreKey(t) = "" /\ proc[t].err = "NoSuchKey"

\* C7: when the compression preference changed between the Writes of k, a
\* Read(k) under either preference returns the value of the latest Write:
\* a value stored under the other preference is readable, and an overwrite
\* under the new preference leaves no data file of the old variant
C7_ChangeCompression ==
    /\ \A t \in LClients :
          (Sequential(t) /\ proc[t].op = "Read" /\ HoldsKey(t)
           /\ (Pre(t).switched \/ Pre(t).lastw[1].useGzip # proc[t].useGzip))
          => (proc[t].err = "nil" /\ proc[t].out = Pre(t).lastw[1].val)
    /\ \A d \in Dirs :
          (InFlightMut(d) = {} /\ ~gh[d].overl /\ gh[d].lastw # NoEntry
           /\ gh[d].switched)
          => ~Exists(fs[d].files[OtherName(gh[d].lastw[1].useGzip)])

\* an entry stored compressed was overwritten by a handle that does not
\* compress, and a Read by a compressing handle returns the new value
C7_Witness ==
    \E t \in LClients :
        /\ Sequential(t) /\ proc[t].op = "Read" /\ HoldsKey(t)
        /\ Pre(t).switched /\ ~Pre(t).lastw[1].useGzip /\ proc[t].useGzip
        /\ proc[t].out = Pre(t).lastw[1].val /\ proc[t].out # VEmpty

----------------------------------------------------------------------------
(* Package hybrid: CRC-32C and the bucket's encoding *)

\* the Castagnoli polynomial 0x82F63B78 of crc32cTable, in 16-bit halves
CastagnoliHi == 33526
CastagnoliLo == 15224
Half == 65536

\* bitwise exclusive or of two naturals
RECURSIVE Xor(_, _)
Xor(a, b) ==
    IF a = 0 THEN b
    ELSE IF b = 0 THEN a
    ELSE ((a + b) % 2) + 2 * Xor(a \div 2, b \div 2)

\* n bits of the table's construction: shift right, and xor the polynomial
\* in when the bit shifted out is set; crc is <<high half, low half>>; the
\* value of crc is computed once at each level
RECURSIVE ShiftBits(_, _)
ShiftBits(crc, n) ==
    IF n = 0 THEN crc
    ELSE CHOOSE r \in
        { IF c[2] % 2 = 1
          THEN ShiftBits(<<Xor(c[1] \div 2, CastagnoliHi),
                           Xor((c[2] \div 2) + (c[1] % 2) * (Half \div 2),
                               CastagnoliLo)>>, n - 1)
          ELSE ShiftBits(<<c[1] \div 2,
                           (c[2] \div 2) + (c[1] % 2) * (Half \div 2)>>, n - 1)
          : c \in {crc} } : TRUE

\* crc32.Update over the bytes of buf
RECURSIVE Update(_, _)
Update(crc, buf) ==
    IF buf = << >> THEN crc
    ELSE CHOOSE r \in
        { Update(ShiftBits(<<c[1], Xor(c[2], Head(buf))>>, 8), Tail(buf))
          : c \in {crc} } : TRUE

\* crc32.Checksum(buf, crc32cTable)
Checksum(buf) ==
    LET crc == Update(<<Half - 1, Half - 1>>, buf)
    IN <<Half - 1 - crc[1], Half - 1 - crc[2]>>

\* gzipData: the bytes as the bucket stores them
gzipData(data) == Gzip(data)

\* readBucket: the object of the key, decompressed fully
readBucket(key) ==
    LET obj == bucket[GetRemoteName(key)] IN
    IF ~Exists(obj) THEN [err |-> "NotExist", data |-> VEmpty]
    ELSE IF ~IsGzip(Content(obj)) THEN [err |-> "gzip.ErrHeader", data |-> VEmpty]
    ELSE [err |-> "nil", data |-> Gunzip(Content(obj))]

\* Options.SkipKey: the skip function the store was opened with (UploadAll,
\* the default, skips no key)
SkipKey(key) == key \in opts.skip

----------------------------------------------------------------------------
(* Package hybrid: calls into the local store, and the row lock *)

\* proc when goroutine t of the hybrid store calls op of db.local
Call(t, op, key, val) ==
    [proc EXCEPT ![t] = [Blank EXCEPT !.pc = FirstPc(op), !.op = op,
                                      !.key = key, !.val = val,
                                      !.useGzip = opts.useGzip]]

\* the call of t into db.local has returned
Returned(t) == proc[t].pc = "ret"

\* proc when t has taken the result of its call
Taken(t) == [proc EXCEPT ![t] = Blank]

\* mutant of CanLock: Lock returns whether the lock is free or not
CanLockAlways(key) == TRUE

\* db.locks.Lock(key) can proceed: GetUseLock is off or the lock is free
CanLock(key) == opts.useLock => locks[key] = 0

\* locks after t went through "if GetUseLock() { Lock; defer Unlock }"
Lock(t, key) == IF opts.useLock THEN [locks EXCEPT ![key] = t] ELSE locks

\* mutant of Unlock: the lock is kept
UnlockForgotten(t) == locks

\* locks after the deferred Unlock of t ran, if t deferred one
Unlock(t) ==
    IF hy[t].held /\ opts.useLock THEN [locks EXCEPT ![hy[t].key] = 0]
    ELSE locks

\* hy when the operation of client t returns (err, out)
HRet(t, err, out) ==
    [hy EXCEPT ![t].pc = "ret", ![t].err = err, ![t].out = out,
               ![t].held = FALSE, ![t].remoteData = VEmpty]

\* the hybrid Writes of key in progress, other than the one of t
OtherWrites(t, key) ==
    {u \in HClients \ {t} :
        hy[u].op = "Write" /\ hy[u].key = key /\ hy[u].pc \notin {"idle", "ret"}}

\* a client can call the hybrid store
CanCall(t) == hy[t].pc \in {"idle", "ret"} /\ hy[t].n < MaxHOps

\* ghost: a hybrid Delete of key has returned nil
Deleted(key) ==
    \E u \in HClients :
        /\ hy[u].op = "Delete" /\ hy[u].pc = "ret"
        /\ hy[u].key = key /\ hy[u].err = "nil"

\* hy when client t enters op(key, val), at position pc
HBegin(t, op, key, val, pc) ==
    [hy EXCEPT ![t] = [HBlank EXCEPT !.pc = pc, !.op = op, !.key = key,
                                     !.val = val, !.n = hy[t].n + 1,
                                     !.since = latest[key],
                                     !.gone = Deleted(key)]]

----------------------------------------------------------------------------
(* hybrid Read *)

\* Read is called: db.local.Read(ctx, key)
HReadStart(t, key) ==
    /\ CanCall(t)
    /\ hy' = HBegin(t, "Read", key, VEmpty, "h_read1")
    /\ proc' = Call(t, "Read", key, VEmpty)
    /\ UNCHANGED <<fs, gh, bucket, locks, scan, opts, latest, ctx, rl, eb, dk, pl>>

\* mutant of HReadLocal: the bucket is asked after any error of the local
\* Read
HReadLocalAnyError(t) ==
    /\ hy[t].pc = "h_read1" /\ Returned(t)
    /\ hy' = IF proc[t].err # "nil"
             THEN [hy EXCEPT ![t].pc = "h_bucket"]
             ELSE HRet(t, proc[t].err, proc[t].out)
    /\ proc' = Taken(t)
    /\ UNCHANGED <<fs, gh, bucket, locks, scan, opts, latest, ctx, rl, eb, dk, pl>>

\* the first local Read returned: its data, its error, or on NoSuchKey the
\* bucket is asked
HReadLocal(t) ==
    /\ hy[t].pc = "h_read1" /\ Returned(t)
    /\ hy' = IF proc[t].err = "NoSuchKey"
             THEN [hy EXCEPT ![t].pc = "h_bucket"]
             ELSE HRet(t, proc[t].err, proc[t].out)
    /\ proc' = Taken(t)
    /\ UNCHANGED <<fs, gh, bucket, locks, scan, opts, latest, ctx, rl, eb, dk, pl>>

\* db.readBucket(ctx, key): not in the bucket either is left to the final
\* local Read; another error is returned; otherwise the payload is kept
HReadBucket(t) ==
    /\ hy[t].pc = "h_bucket"
    /\ LET r == readBucket(hy[t].key) IN
       IF r.err = "NotExist"
       THEN /\ hy' = [hy EXCEPT ![t].pc = "h_read3"]
            /\ proc' = Call(t, "Read", hy[t].key, VEmpty)
       ELSE IF r.err # "nil"
       THEN /\ hy' = HRet(t, r.err, VEmpty)
            /\ UNCHANGED proc
       ELSE /\ hy' = [hy EXCEPT ![t].pc = "h_lock", ![t].remoteData = r.data]
            /\ UNCHANGED proc
    /\ UNCHANGED <<fs, gh, bucket, locks, scan, opts, latest, ctx, rl, eb, dk, pl>>

\* the row lock is taken when it is in use, and local is read again
HReadLock(t) ==
    /\ hy[t].pc = "h_lock"
    /\ CanLock(hy[t].key)
    /\ locks' = Lock(t, hy[t].key)
    /\ hy' = [hy EXCEPT ![t].pc = "h_read2", ![t].held = TRUE]
    /\ proc' = Call(t, "Read", hy[t].key, VEmpty)
    /\ UNCHANGED <<fs, gh, bucket, scan, opts, latest, ctx, rl, eb, dk, pl>>

\* mutant of HReadRecheck: the payload is written whatever the re-check found
HReadRecheckAlwaysFill(t) ==
    /\ hy[t].pc = "h_read2" /\ Returned(t)
    /\ hy' = [hy EXCEPT ![t].pc = "h_fill", ![t].fill = "filled"]
    /\ proc' = Call(t, "Write", hy[t].key, hy[t].remoteData)
    /\ UNCHANGED <<fs, gh, bucket, locks, scan, opts, latest, ctx, rl, eb, dk, pl>>

\* mutant of HReadRecheck: after a miss the payload is not written
HReadRecheckNoFill(t) ==
    /\ hy[t].pc = "h_read2" /\ Returned(t)
    /\ IF proc[t].err = "nil"
       THEN /\ hy' = [HRet(t, "nil", proc[t].out) EXCEPT ![t].fill = "hit"]
            /\ locks' = Unlock(t)
            /\ proc' = Taken(t)
       ELSE /\ hy' = [hy EXCEPT ![t].pc = "h_read3", ![t].fill = "filled"]
            /\ proc' = Call(t, "Read", hy[t].key, VEmpty)
            /\ UNCHANGED locks
    /\ UNCHANGED <<fs, gh, bucket, scan, opts, latest, ctx, rl, eb, dk, pl>>

\* the re-check returned: its data when there is some, otherwise
\* db.local.Write(ctx, key, remoteData)
HReadRecheck(t) ==
    /\ hy[t].pc = "h_read2" /\ Returned(t)
    /\ IF proc[t].err = "nil"
       THEN /\ hy' = [HRet(t, "nil", proc[t].out) EXCEPT ![t].fill = "hit"]
            /\ locks' = Unlock(t)
            /\ proc' = Taken(t)
       ELSE /\ hy' = [hy EXCEPT ![t].pc = "h_fill", ![t].fill = "filled"]
            /\ proc' = Call(t, "Write", hy[t].key, hy[t].remoteData)
            /\ UNCHANGED locks
    /\ UNCHANGED <<fs, gh, bucket, scan, opts, latest, ctx, rl, eb, dk, pl>>

\* the local Write of the payload returned: its error, or the final Read
HReadFilled(t) ==
    /\ hy[t].pc = "h_fill" /\ Returned(t)
    /\ IF proc[t].err # "nil"
       THEN /\ hy' = HRet(t, proc[t].err, VEmpty)
            /\ locks' = Unlock(t)
            /\ proc' = Taken(t)
       ELSE /\ hy' = [hy EXCEPT ![t].pc = "h_read3"]
            /\ proc' = Call(t, "Read", hy[t].key, VEmpty)
            /\ UNCHANGED locks
    /\ UNCHANGED <<fs, gh, bucket, scan, opts, latest, ctx, rl, eb, dk, pl>>

\* return db.local.Read(ctx, key)
HReadFinal(t) ==
    /\ hy[t].pc = "h_read3" /\ Returned(t)
    /\ hy' = HRet(t, proc[t].err, proc[t].out)
    /\ locks' = Unlock(t)
    /\ proc' = Taken(t)
    /\ UNCHANGED <<fs, gh, bucket, scan, opts, latest, ctx, rl, eb, dk, pl>>

----------------------------------------------------------------------------
(* hybrid Write *)

\* Write is called
HWriteStart(t, key, val) ==
    /\ CanCall(t)
    /\ hy' = HBegin(t, "Write", key, val, "h_wlock")
    /\ latest' = [latest EXCEPT ![key] = << >>]
    /\ UNCHANGED <<fs, proc, gh, bucket, locks, scan, opts, ctx, rl, eb, dk, pl>>

\* the row lock is taken when it is in use, then db.local.Write
HWriteLock(t) ==
    /\ hy[t].pc = "h_wlock"
    /\ CanLock(hy[t].key)
    /\ locks' = Lock(t, hy[t].key)
    /\ hy' = [hy EXCEPT ![t].pc = "h_write", ![t].held = TRUE]
    /\ proc' = Call(t, "Write", hy[t].key, hy[t].val)
    /\ UNCHANGED <<fs, gh, bucket, scan, opts, latest, ctx, rl, eb, dk, pl>>

\* mutant of HWriteDone: the value is written through to the bucket
HWriteDoneThrough(t) ==
    /\ hy[t].pc = "h_write" /\ Returned(t)
    /\ hy' = HRet(t, proc[t].err, VEmpty)
    /\ locks' = Unlock(t)
    /\ proc' = Taken(t)
    /\ bucket' = [bucket EXCEPT ![GetRemoteName(hy[t].key)] =
                                   File(gzipData(hy[t].val))]
    /\ latest' = [latest EXCEPT ![hy[t].key] =
                     IF proc[t].err = "nil" /\ OtherWrites(t, hy[t].key) = {}
                     THEN <<hy[t].val>> ELSE << >>]
    /\ UNCHANGED <<fs, gh, scan, opts, ctx, rl, eb, dk, pl>>

\* the local Write returned, and so does Write
HWriteDone(t) ==
    /\ hy[t].pc = "h_write" /\ Returned(t)
    /\ hy' = HRet(t, proc[t].err, VEmpty)
    /\ locks' = Unlock(t)
    /\ proc' = Taken(t)
    /\ latest' = [latest EXCEPT ![hy[t].key] =
                     IF proc[t].err = "nil" /\ OtherWrites(t, hy[t].key) = {}
                     THEN <<hy[t].val>> ELSE << >>]
    /\ UNCHANGED <<fs, gh, bucket, scan, opts, ctx, rl, eb, dk, pl>>

HClientStep(t) ==
    \/ HReadLocal(t) \/ HReadBucket(t) \/ HReadLock(t) \/ HReadRecheck(t)
    \/ HReadFilled(t) \/ HReadFinal(t)
    \/ HWriteLock(t) \/ HWriteDone(t)

----------------------------------------------------------------------------
(* uploadKey, run by the workers of startScanLoop *)

\* hy and scan when uploadKey of worker w returns err: the worker counts it
\* and waits for the next key
UDone(w, err) ==
    /\ hy' = [hy EXCEPT ![w] = [HBlank EXCEPT !.fill = hy[w].fill]]
    /\ scan' = IF err = "nil"
               THEN [scan EXCEPT !.uploaded = @ + 1]
               ELSE [scan EXCEPT !.failed = @ + 1]

\* the first readAndCRC returned, and the context is not done: its error, or
\* the content and its CRC
UReadOld(w) ==
    /\ hy[w].pc = "u_read1" /\ Returned(w)
    /\ ctx = "live"
    /\ IF proc[w].err # "nil"
       THEN UDone(w, proc[w].err)
       ELSE /\ hy' = [hy EXCEPT ![w].pc = "u_upload",
                                ![w].val = proc[w].out,
                                ![w].oldCrc = Checksum(proc[w].out)]
            /\ UNCHANGED scan
    /\ proc' = Taken(w)
    /\ UNCHANGED <<fs, gh, bucket, locks, opts, latest, ctx, rl, eb, dk, pl>>

\* mutant of UUpload: nothing is written to the bucket
UUploadSkipped(w) ==
    /\ hy[w].pc = "u_upload"
    /\ hy' = [hy EXCEPT ![w].pc = "u_lock"]
    /\ UNCHANGED <<fs, proc, gh, bucket, locks, scan, opts, latest, ctx, rl, eb, dk, pl>>

\* db.bucket.Write(ctx, name, gzipData(content))
UUpload(w) ==
    /\ hy[w].pc = "u_upload"
    /\ bucket' = [bucket EXCEPT ![GetRemoteName(hy[w].key)] =
                                   File(gzipData(hy[w].val))]
    /\ hy' = [hy EXCEPT ![w].pc = "u_lock"]
    /\ UNCHANGED <<fs, proc, gh, locks, scan, opts, latest, ctx, rl, eb, dk, pl>>

\* the context is not done: the row lock is taken when it is in use, and the
\* CRC is read again
ULock(w) ==
    /\ hy[w].pc = "u_lock"
    /\ ctx = "live"
    /\ CanLock(hy[w].key)
    /\ locks' = Lock(w, hy[w].key)
    /\ hy' = [hy EXCEPT ![w].pc = "u_read2", ![w].held = TRUE]
    /\ proc' = Call(w, "Read", hy[w].key, VEmpty)
    /\ UNCHANGED <<fs, gh, bucket, scan, opts, latest, ctx, rl, eb, dk, pl>>

\* mutant of UReadNew: the local copy is deleted whatever its CRC is
UReadNewNoGuard(w) ==
    /\ hy[w].pc = "u_read2" /\ Returned(w)
    /\ ctx = "live"
    /\ IF proc[w].err = "nil"
       THEN /\ hy' = [hy EXCEPT ![w].pc = "u_delete", ![w].fill = "same"]
            /\ proc' = Call(w, "Delete", hy[w].key, VEmpty)
            /\ UNCHANGED <<locks, scan>>
       ELSE /\ UDone(w, proc[w].err)
            /\ locks' = Unlock(w)
            /\ proc' = Taken(w)
    /\ UNCHANGED <<fs, gh, bucket, opts, latest, ctx, rl, eb, dk, pl>>

\* the second readAndCRC returned, and the context is not done: its error;
\* with the CRC of before, db.local.Delete(ctx, key); with another CRC, nil
UReadNew(w) ==
    /\ hy[w].pc = "u_read2" /\ Returned(w)
    /\ ctx = "live"
    /\ IF proc[w].err = "nil" /\ Checksum(proc[w].out) = hy[w].oldCrc
       THEN /\ hy' = [hy EXCEPT ![w].pc = "u_delete", ![w].fill = "same"]
            /\ proc' = Call(w, "Delete", hy[w].key, VEmpty)
            /\ UNCHANGED <<locks, scan>>
       ELSE /\ hy' = [hy EXCEPT ![w] =
                        [HBlank EXCEPT !.fill = IF proc[w].err = "nil"
                                                THEN "kept" ELSE hy[w].fill]]
            /\ scan' = IF proc[w].err = "nil"
                       THEN [scan EXCEPT !.uploaded = @ + 1]
                       ELSE [scan EXCEPT !.failed = @ + 1]
            /\ locks' = Unlock(w)
            /\ proc' = Taken(w)
    /\ UNCHANGED <<fs, gh, bucket, opts, latest, ctx, rl, eb, dk, pl>>

\* the local Delete returned, and so does uploadKey
UDeleted(w) ==
    /\ hy[w].pc = "u_delete" /\ Returned(w)
    /\ UDone(w, proc[w].err)
    /\ locks' = Unlock(w)
    /\ proc' = Taken(w)
    /\ UNCHANGED <<fs, gh, bucket, opts, latest, ctx, rl, eb, dk, pl>>

WorkerStep(w) ==
    \/ UReadOld(w) \/ UUpload(w) \/ ULock(w) \/ UReadNew(w) \/ UDeleted(w)

----------------------------------------------------------------------------
(* startScanLoop: the ticker and ScanKeys feeding the workers *)

\* the entry directories filepath.Walk finds under the data root
RECURSIVE Listing(_)
Listing(ds) ==
    IF ds = << >> THEN << >>
    ELSE IF fs[Head(ds)].exists THEN <<Head(ds)>> \o Listing(Tail(ds))
    ELSE Listing(Tail(ds))

\* mutant of STick: the tick is taken while ScanKeys is still running
STickEarly ==
    /\ ctx = "live"
    /\ scan.cycles < MaxCycles
    /\ scan' = [scan EXCEPT !.pc = "walk", !.cycles = @ + 1,
                            !.todo = Listing(<<"d1", "d2">>),
                            !.scanned = 0, !.skipped = 0,
                            !.uploaded = 0, !.failed = 0]
    /\ UNCHANGED <<fs, proc, gh, bucket, locks, hy, opts, latest, ctx, rl, eb, dk, pl>>

\* the ticker fires before the context is done: the counters are reset and
\* ScanKeys starts its walk
STick ==
    /\ scan.pc = "wait"
    /\ ctx = "live"
    /\ scan.cycles < MaxCycles
    /\ scan' = [scan EXCEPT !.pc = "walk", !.cycles = @ + 1,
                            !.todo = Listing(<<"d1", "d2">>),
                            !.scanned = 0, !.skipped = 0,
                            !.uploaded = 0, !.failed = 0]
    /\ UNCHANGED <<fs, proc, gh, bucket, locks, hy, opts, latest, ctx, rl, eb, dk, pl>>

\* the walk visits a directory, the context not being done: os.Remove
\* removes it when it is empty, and
\* its names are read; a key file among them is visited next
SVisit ==
    /\ scan.pc = "walk" /\ scan.todo # << >>
    /\ ctx = "live"
    /\ LET d == Head(scan.todo) IN
       IF fs[d].exists /\ Present(d) = {}
       THEN /\ fs' = [fs EXCEPT ![d].exists = FALSE]
            /\ scan' = [scan EXCEPT !.todo = Tail(@)]
       ELSE /\ UNCHANGED fs
            /\ scan' = IF fs[d].exists /\ KeyFilename \in Present(d)
                       THEN [scan EXCEPT !.pc = "readkey"]
                       ELSE [scan EXCEPT !.todo = Tail(@)]
    /\ UNCHANGED <<proc, gh, bucket, locks, hy, opts, latest, ctx, rl, eb, dk, pl>>

\* readKey(path) of the key file, the context not being done: an error goes
\* to errFunc and the walk moves on; a key goes to keyFunc, which sends it
SReadKey ==
    /\ scan.pc = "readkey"
    /\ ctx = "live"
    /\ LET r == readKey(Head(scan.todo)) IN
       scan' = IF r.err # "nil"
               THEN [scan EXCEPT !.pc = "walk", !.todo = Tail(@)]
               ELSE [scan EXCEPT !.pc = "send", !.key = r.key]
    /\ UNCHANGED <<fs, proc, gh, bucket, locks, hy, opts, latest, ctx, rl, eb, dk, pl>>

\* mutant of SSend: the channel has a buffer, so that the key leaves the
\* scan whether the worker waits for one or not
SSendBuffered(w) ==
    /\ scan.pc = "send"
    /\ SkipKey(scan.key) \/ ctx = "live"
    /\ IF SkipKey(scan.key)
       THEN /\ scan' = [scan EXCEPT !.pc = "walk", !.todo = Tail(@),
                                    !.scanned = @ + 1, !.skipped = @ + 1]
            /\ UNCHANGED <<hy, proc>>
       ELSE /\ scan' = [scan EXCEPT !.pc = "walk", !.todo = Tail(@),
                                    !.scanned = @ + 1]
            /\ hy' = [hy EXCEPT ![w].pc = "u_read1", ![w].op = "uploadKey",
                                ![w].key = scan.key]
            /\ proc' = Call(w, "Read", scan.key, VEmpty)
    /\ UNCHANGED <<fs, gh, bucket, locks, opts, latest, ctx, rl, eb, dk, pl>>

\* mutant of SSend: the worker does not ask SkipKey
SSendNoSkip(w) ==
    /\ scan.pc = "send"
    /\ hy[w].pc = "idle"
    /\ ctx = "live"
    /\ scan' = [scan EXCEPT !.pc = "walk", !.todo = Tail(@),
                            !.scanned = @ + 1]
    /\ hy' = [hy EXCEPT ![w].pc = "u_read1", ![w].op = "uploadKey",
                        ![w].key = scan.key]
    /\ proc' = Call(w, "Read", scan.key, VEmpty)
    /\ UNCHANGED <<fs, gh, bucket, locks, opts, latest, ctx, rl, eb, dk, pl>>

\* keys <- key: the channel has no buffer, so a worker waiting for a key
\* takes it; the worker counts it and, unless SkipKey, starts uploadKey
\* with its first readAndCRC (SSendCancelled when the context is done)
SSend(w) ==
    /\ scan.pc = "send"
    /\ hy[w].pc = "idle"
    /\ SkipKey(scan.key) \/ ctx = "live"
    /\ IF SkipKey(scan.key)
       THEN /\ scan' = [scan EXCEPT !.pc = "walk", !.todo = Tail(@),
                                    !.scanned = @ + 1, !.skipped = @ + 1]
            /\ UNCHANGED <<hy, proc>>
       ELSE /\ scan' = [scan EXCEPT !.pc = "walk", !.todo = Tail(@),
                                    !.scanned = @ + 1]
            /\ hy' = [hy EXCEPT ![w].pc = "u_read1", ![w].op = "uploadKey",
                                ![w].key = scan.key]
            /\ proc' = Call(w, "Read", scan.key, VEmpty)
    /\ UNCHANGED <<fs, gh, bucket, locks, opts, latest, ctx, rl, eb, dk, pl>>

\* ScanKeys returns, the counters are logged, the loop waits for the ticker
SDone ==
    /\ scan.pc = "walk" /\ scan.todo = << >>
    /\ scan' = [scan EXCEPT !.pc = "wait"]
    /\ UNCHANGED <<fs, proc, gh, bucket, locks, hy, opts, latest, ctx, rl, eb, dk, pl>>

----------------------------------------------------------------------------
(* The hybrid store under concurrent clients *)

HNext ==
    \/ \E t \in HReaders, key \in HKeys : HReadStart(t, key)
    \/ \E t \in HWriters, key \in HKeys, val \in HValues :
          HWriteStart(t, key, val)
    \/ \E t \in HClients : HClientStep(t)
    \/ \E w \in Workers : WorkerStep(w)
    \/ STick \/ SVisit \/ SReadKey \/ SDone
    \/ \E w \in Workers : SSend(w)
    \/ \E t \in HThreads : LocalStep(t)

\* hybrid.Open on an empty data root and an empty bucket, with the default
\* options: the local store does not compress, the row lock is in use
SpecHybrid == Init /\ [][HNext]_vars

----------------------------------------------------------------------------
(* Claims about the hybrid store *)

\* the step is one of goroutine t of the hybrid store
StepOf(t) == hy'[t] # hy[t]

\* C8 (as claimed): with the row lock in use, a hybrid Read(k) called after
\* Write(k, v) returned, with no Write of k issued since, does not return
\* an older value than v; two values with one CRC-32C, which uploadKey
\* cannot tell apart, are not held against the claim here
C8_NoStaleOverwrite ==
    \A t \in HReaders :
        (/\ opts.useLock
         /\ hy[t].pc = "ret" /\ hy[t].op = "Read" /\ hy[t].err = "nil"
         /\ hy[t].since # << >> /\ latest[hy[t].key] = hy[t].since)
        => Checksum(hy[t].out) = Checksum(hy[t].since[1])

\* the re-read of uploadKey returned a value to worker w
ReRead(w) ==
    hy[w].pc = "u_read2" /\ Returned(w) /\ proc[w].err = "nil" /\ StepOf(w)

\* uploadKey of w returns nil at this step, without a call of local.Delete
\* and with the data root as it is, where key holds the value out
KeepsLocal(w, out) ==
    /\ hy'[w].pc = "idle" /\ proc'[w] = Blank
    /\ scan'.uploaded = scan.uploaded + 1
    /\ fs' = fs
    /\ CommittedVal(GetDirForKey(hy[w].key), hy[w].key) = {out}

\* C9 (as claimed): when the value the worker reads after the upload differs
\* from the one it uploaded, uploadKey does not delete the local copy, which
\* stays readable
C9_ValueGuard ==
    [][\A w \in Workers :
          (ReRead(w) /\ proc[w].out # hy[w].val) => KeepsLocal(w, proc[w].out)]_vars

\* C9 (amended): when the CRC-32C of the value the worker reads after the
\* upload differs from the CRC-32C of the one it uploaded, uploadKey does not
\* delete the local copy, which stays readable
C9_CrcGuard ==
    [][\A w \in Workers :
          (ReRead(w) /\ Checksum(proc[w].out) # Checksum(hy[w].val))
          => KeepsLocal(w, proc[w].out)]_vars

\* a worker found another CRC and kept the local copy, which is the value of
\* the latest Write while the bucket holds the one before
C9_Witness ==
    \E w \in Workers, k \in HKeys :
        /\ hy[w].pc = "idle" /\ hy[w].fill = "kept"
        /\ latest[k] # << >>
        /\ CommittedVal(GetDirForKey(k), k) = {latest[k][1]}
        /\ readBucket(k).err = "nil" /\ readBucket(k).data # latest[k][1]

\* C10: when the re-check of a hybrid Read that fetched the payload of the
\* bucket finds the key in the local store, the Read calls no local Write,
\* returns nil and the local value, and the local store holds that value
C10_RecheckHit ==
    [][\A t \in HClients :
          (hy[t].pc = "h_read2" /\ Returned(t) /\ proc[t].err = "nil" /\ StepOf(t))
          => /\ hy'[t].pc = "ret" /\ hy'[t].err = "nil"
             /\ hy'[t].out = proc[t].out
             /\ proc'[t] = Blank
             /\ fs' = fs
             /\ CommittedVal(GetDirForKey(hy[t].key), hy[t].key) = {proc[t].out}]_vars

\* a Read whose first local Read missed returned, after its re-check, the
\* value of a Write that had completed meanwhile, not the one of the bucket
C10_Witness ==
    \E t \in HClients :
        /\ hy[t].pc = "ret" /\ hy[t].op = "Read" /\ hy[t].fill = "hit"
        /\ hy[t].err = "nil" /\ latest[hy[t].key] = <<hy[t].out>>
        /\ readBucket(hy[t].key).err = "nil"
        /\ readBucket(hy[t].key).data # hy[t].out
        /\ CommittedVal(GetDirForKey(hy[t].key), hy[t].key) = {hy[t].out}

----------------------------------------------------------------------------
(* The upload loop under fair scheduling: one key is written once *)

\* TestHybrid: one Write of one key, Reads of it, and the upload loop
UploadNext ==
    \/ \E t \in HWriters, key \in HKeys :
          hy[t].n = 0 /\ HWriteStart(t, key, VA)
    \/ \E t \in HReaders, key \in HKeys : HReadStart(t, key)
    \/ \E t \in HClients : HClientStep(t)
    \/ \E w \in Workers : WorkerStep(w)
    \/ STick \/ SVisit \/ SReadKey \/ SDone
    \/ \E w \in Workers : SSend(w)
    \/ \E t \in HThreads : LocalStep(t)

\* every goroutine that can take a step takes one eventually, and the ticker
\* fires; clients are free never to call
Fair ==
    /\ \A t \in HThreads : WF_vars(LocalStep(t))
    /\ \A t \in HClients : WF_vars(HClientStep(t))
    /\ \A w \in Workers : WF_vars(WorkerStep(w)) /\ WF_vars(SSend(w))
    /\ WF_vars(STick \/ SVisit \/ SReadKey \/ SDone)

SpecUpload == Init /\ [][UploadNext]_vars /\ Fair

\* the local store holds nothing for key k
LocalAbsent(k) == Present(GetDirForKey(k)) = {}

\* the bucket holds the value v for key k
RemoteHolds(k, v) == readBucket(k).err = "nil" /\ readBucket(k).data = v

\* the Write of k has returned nil and the ticker will fire again
Settled(k) == latest[k] # << >> /\ scan.cycles < MaxCycles

\* the local copy of k is deleted and the bucket holds the value written
Migrated(k) == LocalAbsent(k) /\ RemoteHolds(k, VA)

\* a hybrid Read of t, called after the Write returned, has returned
ReadAfter(t) == hy[t].pc = "ret" /\ hy[t].op = "Read" /\ hy[t].since # << >>

----------------------------------------------------------------------------
(* Claims about the remote read *)

----------------------------------------------------------------------------
(* Package errbatch, as far as the hybrid Delete uses it *)

\* ErrBatch.Add: a nil error is not added
Add(errors, err) == IF err = "nil" THEN errors ELSE Append(errors, err)

\* ErrBatch.Compile: nil for no error, the error itself when it is the only
\* one, the batch otherwise
Compile(errors) ==
    IF Len(errors) = 0 THEN "nil"
    ELSE IF Len(errors) = 1 THEN errors[1]
    ELSE "ErrBatch"

----------------------------------------------------------------------------
(* hybrid Delete *)

\* Delete is called: db.local.Delete(ctx, key)
HDeleteStart(t, key) ==
    /\ CanCall(t)
    /\ hy' = HBegin(t, "Delete", key, VEmpty, "h_del1")
    /\ proc' = Call(t, "Delete", key, VEmpty)
    /\ latest' = [latest EXCEPT ![key] = << >>]
    /\ UNCHANGED <<fs, gh, bucket, locks, scan, opts, ctx, rl, eb, dk, pl>>

\* mutant of HDeleteLocal: an error of the local Delete is returned at once
HDeleteLocalShortCircuit(t) ==
    /\ hy[t].pc = "h_del1" /\ Returned(t)
    /\ hy' = IF proc[t].err \notin {"nil", "NoSuchKey"}
             THEN HRet(t, proc[t].err, VEmpty)
             ELSE [hy EXCEPT ![t].pc = "h_del2", ![t].err = proc[t].err]
    /\ proc' = Taken(t)
    /\ UNCHANGED <<fs, gh, bucket, locks, scan, opts, latest, ctx, rl, eb, dk, pl>>

\* the local Delete returned: unless it is NoSuchKey its error is added to
\* the batch; the bucket is asked next in any case
HDeleteLocal(t) ==
    /\ hy[t].pc = "h_del1" /\ Returned(t)
    /\ hy' = [hy EXCEPT ![t].pc = "h_del2", ![t].err = proc[t].err,
                        ![t].batch = IF proc[t].err = "NoSuchKey" THEN << >>
                                     ELSE Add(<< >>, proc[t].err)]
    /\ proc' = Taken(t)
    /\ UNCHANGED <<fs, gh, bucket, locks, scan, opts, latest, ctx, rl, eb, dk, pl>>

\* hy when the Delete of t returns, its bucket Delete having returned err:
\* NoSuchKey when neither tier had the key, else the compiled batch
HDeleteRet(t, err) ==
    LET errors == IF err = "NotExist" THEN hy[t].batch
                  ELSE Add(hy[t].batch, err)
        existNeither == hy[t].err = "NoSuchKey" /\ err = "NotExist"
    IN [HRet(t, IF existNeither THEN "NoSuchKey" ELSE Compile(errors), VEmpty)
           EXCEPT ![t].batch = IF existNeither THEN << >> ELSE errors]

\* db.bucket.Delete(ctx, name): the object is removed, or there is none
HDeleteBucket(t) ==
    /\ hy[t].pc = "h_del2"
    /\ LET name == GetRemoteName(hy[t].key) IN
       /\ bucket' = [bucket EXCEPT ![name] = Absent]
       /\ hy' = HDeleteRet(t, IF Exists(bucket[name]) THEN "nil"
                              ELSE "NotExist")
    /\ UNCHANGED <<fs, proc, gh, locks, scan, opts, latest, ctx, rl, eb, dk, pl>>

\* db.bucket.Delete fails with an error that is not not-exist
HDeleteBucketFailed(t) ==
    /\ hy[t].pc = "h_del2"
    /\ opts.faulty
    /\ hy' = HDeleteRet(t, "EIO")
    /\ UNCHANGED <<fs, proc, gh, bucket, locks, scan, opts, latest, ctx, rl, eb, dk, pl>>

HDeleteStep(t) ==
    \/ HDeleteLocal(t) \/ HDeleteBucket(t) \/ HDeleteBucketFailed(t)

----------------------------------------------------------------------------
(* The two tiers under the clients of a store that already holds data *)

\* number of operations each client issues on the store that holds data
MaxTierOps == 1

\* the keys the clients use: k2, whose entry directory k1 may hold, and k3
TKeys == {"k2", "k3"}

\* directory d as a Write(key, val) without compression leaves it
Committed(key, val) ==
    [exists |-> TRUE,
     files |-> [EmptyDir EXCEPT ![KeyFilename] = File(key),
                                ![DataFilename] = File(val)]]

\* hybrid.Open on a data root and a bucket left by earlier runs: k1 and k3
\* are local or not, k2 and k3 are in the bucket or not, and the calls of
\* the bucket may fail
InitTiers ==
    /\ fs \in [Dirs -> {[exists |-> FALSE, files |-> EmptyDir],
                        Committed("k1", VA), Committed("k3", VA)}]
    /\ fs["d1"] # Committed("k3", VA) /\ fs["d2"] # Committed("k1", VA)
    /\ proc = [t \in Threads |-> Blank]
    /\ gh = [d \in Dirs |->
               [lastw |-> NoEntry, overl |-> FALSE, mixed |-> FALSE,
                switched |-> FALSE, del |-> {}, wr |-> {}]]
    /\ bucket \in [{GetRemoteName(k) : k \in Keys} ->
                      {Absent, File(gzipData(VB))}]
    /\ bucket[GetRemoteName("k1")] = Absent
    /\ locks = [k \in Keys |-> 0]
    /\ hy = [t \in HThreads |-> HBlank]
    /\ scan = ScanIdle
    /\ latest = [k \in Keys |-> << >>]
    /\ ctx = "live"
    /\ rl = NewRowLock
    /\ eb = NewErrBatch
    /\ dk = NoDirCall
    /\ pl = NewPool(PoolMaxSize)
    /\ opts = [DefaultOptions EXCEPT !.faulty = TRUE]

\* db.bucket.Read fails with an error that is not not-exist: readBucket
\* returns it, and so does Read
HReadBucketFailed(t) ==
    /\ hy[t].pc = "h_bucket"
    /\ opts.faulty
    /\ hy' = HRet(t, "EIO", VEmpty)
    /\ UNCHANGED <<fs, proc, gh, bucket, locks, scan, opts, latest, ctx, rl, eb, dk, pl>>

TiersNext ==
    \/ \E t \in HClients, key \in TKeys :
          /\ hy[t].n < MaxTierOps
          /\ \/ HReadStart(t, key)
             \/ HWriteStart(t, key, VEmpty)
             \/ HDeleteStart(t, key)
    \/ \E t \in HClients : HClientStep(t)
    \/ \E t \in HClients : HReadBucketFailed(t)
    \/ \E t \in HClients : HDeleteStep(t)
    \/ \E t \in HClients : LocalStep(t)

SpecTiers == InitTiers /\ [][TiersNext]_vars

----------------------------------------------------------------------------
(* startScanLoop when uploads fail and when the context is cancelled *)

\* the context passed to Open is cancelled
Cancel ==
    /\ ctx = "live"
    /\ ctx' = "done"
    /\ UNCHANGED <<fs, proc, gh, bucket, locks, hy, scan, opts, latest, rl, eb, dk, pl>>

\* mutant of UUploadFailed: the error of the bucket is ignored
UUploadFailedIgnored(w) ==
    /\ hy[w].pc = "u_upload"
    /\ opts.faulty \/ ctx = "done"
    /\ hy' = [hy EXCEPT ![w].pc = "u_lock"]
    /\ UNCHANGED <<fs, proc, gh, bucket, locks, scan, opts, latest, ctx, rl, eb, dk, pl>>

\* db.bucket.Write fails: uploadKey returns its error, the worker counts a
\* failure and waits for the next key
UUploadFailed(w) ==
    /\ hy[w].pc = "u_upload"
    /\ opts.faulty \/ ctx = "done"
    /\ UDone(w, "EIO")
    /\ UNCHANGED <<fs, proc, gh, bucket, locks, opts, latest, ctx, rl, eb, dk, pl>>

\* uploadKey finds the context done at one of its checkpoints (after the
\* first readAndCRC, before the row lock, after the second readAndCRC) and
\* returns its error: the worker counts a failure
UCancelled(w) ==
    /\ ctx = "done"
    /\ \/ hy[w].pc \in {"u_read1", "u_read2"} /\ Returned(w)
       \/ hy[w].pc = "u_lock"
    /\ UDone(w, "context.Canceled")
    /\ locks' = Unlock(w)
    /\ proc' = Taken(w)
    /\ UNCHANGED <<fs, gh, bucket, opts, latest, ctx, rl, eb, dk, pl>>

\* a worker waiting for a key finds the context done, and returns
WExit(w) ==
    /\ hy[w].pc = "idle"
    /\ ctx = "done"
    /\ hy' = [hy EXCEPT ![w].pc = "exit"]
    /\ UNCHANGED <<fs, proc, gh, bucket, locks, scan, opts, latest, ctx, rl, eb, dk, pl>>

\* keys <- key when the context is done: a worker that takes the key counts
\* it, and its uploadKey returns the error of the context at once
SSendCancelled(w) ==
    /\ scan.pc = "send"
    /\ hy[w].pc = "idle"
    /\ ~SkipKey(scan.key) /\ ctx = "done"
    /\ scan' = [scan EXCEPT !.pc = "walk", !.todo = Tail(@),
                            !.scanned = @ + 1, !.failed = @ + 1]
    /\ UNCHANGED <<fs, proc, gh, bucket, locks, hy, opts, latest, ctx, rl, eb, dk, pl>>

\* the ticker fires when the context is done and the loop takes the tick:
\* the counters are reset and ScanKeys returns the error of the context
STickCancelled ==
    /\ scan.pc = "wait"
    /\ ctx = "done"
    /\ scan.cycles < MaxCycles
    /\ scan' = [scan EXCEPT !.cycles = @ + 1, !.todo = << >>,
                            !.scanned = 0, !.skipped = 0,
                            !.uploaded = 0, !.failed = 0]
    /\ UNCHANGED <<fs, proc, gh, bucket, locks, hy, opts, latest, ctx, rl, eb, dk, pl>>

\* the walk finds the context done at the next path: ScanKeys returns
SAbort ==
    /\ \/ scan.pc = "walk" /\ scan.todo # << >>
       \/ scan.pc = "readkey"
    /\ ctx = "done"
    /\ scan' = [scan EXCEPT !.pc = "wait", !.todo = << >>]
    /\ UNCHANGED <<fs, proc, gh, bucket, locks, hy, opts, latest, ctx, rl, eb, dk, pl>>

\* the loop waiting for the ticker finds the context done, and returns
SExit ==
    /\ scan.pc = "wait"
    /\ ctx = "done"
    /\ scan' = [scan EXCEPT !.pc = "exit"]
    /\ UNCHANGED <<fs, proc, gh, bucket, locks, hy, opts, latest, ctx, rl, eb, dk, pl>>

\* the steps of the scan loop and of its workers
LoopStep ==
    \/ \E w \in Workers : WorkerStep(w)
    \/ \E w \in Workers : UUploadFailed(w) \/ UCancelled(w) \/ WExit(w)
    \/ STick \/ SVisit \/ SReadKey \/ SDone
    \/ \E w \in Workers : SSend(w) \/ SSendCancelled(w)
    \/ STickCancelled \/ SAbort \/ SExit
    \/ \E w \in Workers : LocalStep(w)

\* hybrid.Open on a data root that holds k1 and may hold k3, and an empty
\* bucket whose calls may fail; the skip function skips no key or k1
InitLoop ==
    /\ fs \in [Dirs -> {[exists |-> FALSE, files |-> EmptyDir],
                        Committed("k1", VA), Committed("k3", VA)}]
    /\ fs["d1"] = Committed("k1", VA) /\ fs["d2"] # Committed("k1", VA)
    /\ proc = [t \in Threads |-> Blank]
    /\ gh = [d \in Dirs |->
               [lastw |-> NoEntry, overl |-> FALSE, mixed |-> FALSE,
                switched |-> FALSE, del |-> {}, wr |-> {}]]
    /\ bucket = [name \in {GetRemoteName(k) : k \in Keys} |-> Absent]
    /\ locks = [k \in Keys |-> 0]
    /\ hy = [t \in HThreads |-> HBlank]
    /\ scan = ScanIdle
    /\ latest = [k \in Keys |-> << >>]
    /\ ctx = "live"
    /\ rl = NewRowLock
    /\ eb = NewErrBatch
    /\ dk = NoDirCall
    /\ pl = NewPool(PoolMaxSize)
    /\ opts \in {[DefaultOptions EXCEPT !.faulty = TRUE, !.skip = s] :
                    s \in {{}, {"k1"}}}

\* one client calls the store once while the loop runs
LoopNext ==
    \/ \E t \in HWriters :
          /\ hy[t].n < MaxTierOps
          /\ \/ HReadStart(t, "k3")
             \/ HWriteStart(t, "k3", VB)
             \/ HDeleteStart(t, "k3")
    \/ \E t \in HWriters : HClientStep(t) \/ HDeleteStep(t) \/ LocalStep(t)
    \/ LoopStep
    \/ Cancel

SpecLoop == InitLoop /\ [][LoopNext]_vars

----------------------------------------------------------------------------
(* Claims about the errors of the hybrid Read *)

\* no goroutine other than t has called the store
Alone(t) == \A u \in HThreads \ {t} : hy[u].n = 0 /\ hy[u].pc = "idle"

\* key is in neither tier, and no other key holds its entry directory
InNeither(key) ==
    /\ ~fs[GetDirForKey(key)].exists
    /\ ~Exists(bucket[GetRemoteName(key)])

\* C13: a hybrid Read whose local Read fails with an error other than
\* NoSuchKey returns that error without asking the bucket; when the bucket
\* read fails with an error that is not not-exist the Read returns that error
\* and calls no local Write; when the bucket reports not-exist the Read
\* returns what a final local Read returns, which is NoSuchKey for a key in
\* neither tier.
C13_ReadErrors ==
    [][\A t \in HClients : (StepOf(t) /\ hy[t].op = "Read") =>
          /\ (hy[t].pc = "h_read1" /\ proc[t].err \notin {"nil", "NoSuchKey"})
                => /\ hy'[t].pc = "ret" /\ hy'[t].err = proc[t].err
                   /\ bucket' = bucket /\ fs' = fs
          /\ (hy[t].pc = "h_read1" /\ proc[t].err = "NoSuchKey")
                => hy'[t].pc = "h_bucket"
          /\ hy[t].pc = "h_bucket"
                => \/ /\ hy'[t].pc = "ret"
                      /\ hy'[t].err \notin {"nil", "NotExist", "NoSuchKey"}
                      /\ proc'[t] = Blank /\ fs' = fs /\ bucket' = bucket
                   \/ /\ hy'[t].pc = "h_read3" /\ proc'[t].op = "Read"
                      /\ readBucket(hy[t].key).err = "NotExist"
                   \/ /\ hy'[t].pc = "h_lock"
                      /\ readBucket(hy[t].key).err = "nil"
          /\ (hy[t].pc = "h_read3" /\ hy[t].fill = "none")
                => /\ hy'[t].pc = "ret" /\ hy'[t].err = proc[t].err
                   /\ (Alone(t) /\ InNeither(hy[t].key))
                         => hy'[t].err = "NoSuchKey"]_vars

\* a Read of k2 returned the collision with k1 although the bucket holds k2,
\* and a Read of k3, which is not local, returned the error of the bucket
C13_Witness ==
    \E t, u \in HClients :
        /\ hy[t].pc = "ret" /\ hy[t].op = "Read" /\ hy[t].key = "k2"
        /\ hy[t].err = "KeyCollision"
        /\ Exists(bucket[GetRemoteName("k2")])
        /\ hy[u].pc = "ret" /\ hy[u].op = "Read" /\ hy[u].key = "k3"
        /\ hy[u].err = "EIO"
        /\ ~fs["d2"].exists

\* a Read of a key in neither tier returned NoSuchKey
C13_Neither ==
    \E t \in HClients :
        /\ hy[t].pc = "ret" /\ hy[t].op = "Read" /\ hy[t].err = "NoSuchKey"
        /\ Alone(t) /\ InNeither(hy[t].key)

----------------------------------------------------------------------------
(* Claims about the frame of the hybrid Write *)

\* C14: a hybrid Write only takes the row lock and calls the local Write: no
\* step of it, in the hybrid code or in the local store, changes the bucket,
\* and it never asks the bucket; the bucket changes only in the bucket Write
\* of an upload worker and in the bucket Delete of a hybrid Delete.
C14_WriteFrame ==
    [][/\ \A t \in HClients :
             (hy[t].op = "Write" /\ hy[t].pc # "ret"
              /\ (StepOf(t) \/ proc'[t] # proc[t]))
                => /\ bucket' = bucket
                   /\ hy[t].pc \in {"h_wlock", "h_write"}
                   /\ hy'[t].pc \in {"h_write", "ret"}
                   /\ proc[t].op \in {"none", "Write"}
       /\ bucket' # bucket
             => \/ \E w \in Workers : StepOf(w) /\ hy[w].pc = "u_upload"
                \/ \E t \in HClients :
                      StepOf(t) /\ hy[t].op = "Delete" /\ hy[t].pc = "h_del2"
      ]_vars

\* a Write of k3 returned and its value is local while the bucket, to which
\* a worker uploaded k1, has no object for k3
C14_Witness ==
    \E t \in HClients :
        /\ hy[t].pc = "ret" /\ hy[t].op = "Write" /\ hy[t].err = "nil"
        /\ CommittedVal(GetDirForKey(hy[t].key), hy[t].key) = {hy[t].val}
        /\ ~Exists(bucket[GetRemoteName(hy[t].key)])
        /\ Exists(bucket[GetRemoteName("k1")])

----------------------------------------------------------------------------
(* Claims about the hybrid Delete *)

\* what Delete returns, as claimed, when the local Delete returned e1 and
\* the bucket Delete e2
DeleteOutcome(e1, e2) ==
    IF e1 = "NoSuchKey" /\ e2 = "NotExist"
    THEN [err |-> "NoSuchKey", batch |-> << >>]
    ELSE IF e1 \in {"nil", "NoSuchKey"} /\ e2 \in {"nil", "NotExist"}
    THEN [err |-> "nil", batch |-> << >>]
    ELSE IF e1 \in {"nil", "NoSuchKey"} THEN [err |-> e2, batch |-> <<e2>>]
    ELSE IF e2 \in {"nil", "NotExist"} THEN [err |-> e1, batch |-> <<e1>>]
    ELSE [err |-> "ErrBatch", batch |-> <<e1, e2>>]

\* the bucket Delete of name returned e2 in this step
BucketDeleted(name, e2) ==
    IF e2 = "nil"
    THEN Exists(bucket[name]) /\ bucket' = [bucket EXCEPT ![name] = Absent]
    ELSE /\ bucket' = bucket
         /\ e2 = "NotExist" => ~Exists(bucket[name])

\* C15: a hybrid Delete calls the bucket Delete whatever the local Delete
\* returned; it returns NoSuchKey exactly when both reported not-exist, nil
\* when neither failed and one of them deleted, and otherwise the only error
\* that is not not-exist, or the batch of both.
C15_DeleteBoth ==
    [][\A t \in HClients : (StepOf(t) /\ hy[t].op = "Delete") =>
          /\ hy[t].pc = "h_del1"
                => /\ hy'[t].pc = "h_del2" /\ hy'[t].err = proc[t].err
                   /\ bucket' = bucket
          /\ hy[t].pc = "h_del2"
                => /\ hy'[t].pc = "ret"
                   /\ \E e2 \in {"nil", "NotExist", "EIO"} :
                         /\ BucketDeleted(GetRemoteName(hy[t].key), e2)
                         /\ hy'[t].err = DeleteOutcome(hy[t].err, e2).err
                         /\ hy'[t].batch = DeleteOutcome(hy[t].err, e2).batch
                   /\ hy'[t].err = "NoSuchKey"
                         <=> /\ hy[t].err = "NoSuchKey"
                             /\ ~Exists(bucket[GetRemoteName(hy[t].key)])
                             /\ hy'[t].batch = << >>]_vars

\* a Delete of k2 returned the batch of the collision with k1 and of the
\* error of the bucket, and a Delete of k3 returned nil, k3 being in no tier
\* any more
C15_Witness ==
    \E t, u \in HClients :
        /\ hy[t].pc = "ret" /\ hy[t].op = "Delete" /\ hy[t].key = "k2"
        /\ hy[t].err = "ErrBatch"
        /\ hy[t].batch = <<"KeyCollision", "EIO">>
        /\ hy[u].pc = "ret" /\ hy[u].op = "Delete" /\ hy[u].key = "k3"
        /\ hy[u].err = "nil"
        /\ ~fs["d2"].exists /\ ~Exists(bucket[GetRemoteName("k3")])

----------------------------------------------------------------------------
(* Claims about the skip function *)

\* the step is one of the scan loop or of a worker, in the hybrid code or in
\* the local store
LoopActs ==
    \/ scan' # scan
    \/ \E w \in Workers : StepOf(w) \/ proc'[w] # proc[w]

\* what the tiers hold for key: its local value and its object
Held(key) ==
    <<CommittedVal(GetDirForKey(key), key), bucket[GetRemoteName(key)]>>

\* C16: no worker runs uploadKey for a key SkipKey returns true for, no step
\* of the upload loop changes the local copy or the bucket object of such a
\* key, and the key the clients leave alone is local, and in the local store
\* only, whatever the number of cycles.
C16_SkippedStaysLocal ==
    /\ [](\A w \in Workers :
             hy[w].pc \notin {"idle", "exit"} => ~SkipKey(hy[w].key))
    /\ [](\A key \in opts.skip : Held(key) = <<{VA}, Absent>>)
    /\ [][\A key \in opts.skip : LoopActs => Held(key)' = Held(key)]_vars

\* two cycles are over, the second one skipped k1, which is still local and
\* not in the bucket, while k3 was uploaded and is not local any more
C16_Witness ==
    /\ opts.skip = {"k1"}
    /\ scan.cycles = MaxCycles /\ scan.pc = "wait" /\ scan.skipped > 0
    /\ Held("k1") = <<{VA}, Absent>>
    /\ ~fs["d2"].exists /\ Exists(bucket[GetRemoteName("k3")])

----------------------------------------------------------------------------
(* Claims about the errors of uploadKey *)

\* the step is the one in which uploadKey of worker w returns
UploadEnds(w) ==
    /\ hy[w].pc \in {"u_read1", "u_upload", "u_lock", "u_read2", "u_delete"}
    /\ hy'[w].pc = "idle"

\* the counters after one more failed, or uploaded, key
Counted(failed, uploaded) ==
    [scan EXCEPT !.failed = @ + failed, !.uploaded = @ + uploaded]

\* uploadKey of worker w returns an error in this step: the one of the local
\* call that returned, or the one of the context at a checkpoint
UploadErr(w) ==
    \/ hy[w].pc \in {"u_read1", "u_upload", "u_lock"}
    \/ hy[w].pc \in {"u_read2", "u_delete"} /\ proc[w].err # "nil"
    \/ hy[w].pc = "u_read2" /\ ctx = "done"

\* C17: when uploadKey returns, with an error or without, nothing changes
\* but the counters (failed for an error, uploaded otherwise), the worker,
\* which waits for the next key, and its row lock: no client sees the error.
\* The bucket Write either stores the object or fails, and when it fails
\* uploadKey ends there: the local store is as it was and no local Delete is
\* called.
C17_UploadErrors ==
    [][\A w \in Workers :
          /\ UploadEnds(w)
                => /\ scan' = IF UploadErr(w) THEN Counted(1, 0)
                              ELSE Counted(0, 1)
                   /\ \A t \in HClients : hy'[t] = hy[t] /\ proc'[t] = proc[t]
                   /\ fs' = fs /\ bucket' = bucket /\ proc'[w] = Blank
          /\ (StepOf(w) /\ hy[w].pc = "u_upload")
                => \/ /\ hy'[w].pc = "u_lock"
                      /\ bucket'[GetRemoteName(hy[w].key)]
                            = File(gzipData(hy[w].val))
                   \/ /\ UploadEnds(w)
                      /\ proc'[w] = proc[w] /\ locks' = locks
          /\ (scan.pc = "send" /\ scan'.pc # "send" /\ ctx = "done"
              /\ ~SkipKey(scan.key))
                => scan'.failed = scan.failed + 1 /\ hy' = hy /\ fs' = fs
      ]_vars

\* before any client called and before any cancellation, the cycle is over
\* with two keys counted as failed: the bucket Write of both failed, and
\* both are still local and not in the bucket
C17_Witness ==
    /\ scan.pc = "wait" /\ scan.failed = 2 /\ ctx = "live"
    /\ \A t \in HClients : hy[t].n = 0
    /\ Held("k1") = <<{VA}, Absent>> /\ Held("k3") = <<{VA}, Absent>>

----------------------------------------------------------------------------
(* Claims about the cycles of the upload loop *)

\* the workers that are processing a key
Busy == {w \in Workers : hy[w].pc \notin {"idle", "exit"}}

\* the step starts a cycle: the tick is taken and ScanKeys is called
CycleStarts == scan'.cycles = scan.cycles + 1

\* C18 (as claimed): when a cycle starts, no worker is still processing a
\* key of the cycle before.
C18_NoOverlap == [][CycleStarts => Busy = {}]_vars

\* C18 (amended): when a cycle starts, the ScanKeys of the cycle before has
\* returned: it has no directory left to visit and no key waiting for a
\* worker; the keys it handed over may still be processed, one by worker.
C18_ScansInSequence ==
    [][CycleStarts => /\ scan.pc = "wait" /\ scan.todo = << >>
                      /\ Cardinality(Busy) <= NWorkers
                      /\ scan'.scanned = 0 /\ hy' = hy]_vars

\* the second cycle walks, no worker has taken a key of it, and a worker is
\* still uploading a key of the first cycle
C18_Witness ==
    /\ scan.cycles = 2 /\ scan.pc = "walk" /\ scan.scanned = 0
    /\ \E w \in Workers : hy[w].pc = "u_upload"

----------------------------------------------------------------------------
(* Claims about the back-pressure of the upload loop *)

\* the workers waiting for a key
Waiting == {w \in Workers : hy[w].pc = "idle"}

\* the scan is where it was: in keyFunc, sending the same key
Blocked == scan'.pc = scan.pc /\ scan'.todo = scan.todo /\ scan'.key = scan.key

\* C19: a key leaves the scan only into the hands of a worker that waits for
\* one, which then processes this key and no other until it has counted it;
\* so no more keys than there are workers are in processing, and while no
\* worker waits the scan stays blocked in its callback.
C19_BackPressure ==
    /\ [](Cardinality(Busy) <= NWorkers /\ Busy \cap Waiting = {})
    /\ [][/\ (scan.pc = "send" /\ Waiting = {}) => Blocked
          /\ (scan.pc = "send" /\ ~Blocked)
                => \E w \in Waiting :
                      /\ \A u \in Workers \ {w} : hy'[u] = hy[u]
                      /\ \/ hy'[w].pc = "u_read1" /\ hy'[w].key = scan.key
                         \/ hy'[w] = hy[w]
                            /\ (SkipKey(scan.key) \/ ctx = "done")
          /\ \A w \in Busy : hy'[w].pc # "idle" => hy'[w].key = hy[w].key
         ]_vars

\* ScanKeys has found k3 and is blocked sending it, all the workers being
\* busy uploading
C19_Witness ==
    /\ scan.pc = "send" /\ scan.key = "k3"
    /\ Busy = Workers
    /\ \E w \in Workers : hy[w].pc = "u_upload" /\ hy[w].key = "k1"

----------------------------------------------------------------------------
(* The upload loop under cancellation *)

CancelNext == LoopStep \/ Cancel

\* every goroutine that can take a step takes one: a worker goes on with its
\* uploadKey and with the local call it is in, a worker waiting for a key
\* takes the key that is sent or, the context being done, returns, and the
\* loop goes on with its walk or, the context being done, returns
FairCancel ==
    /\ \A w \in Workers :
          /\ WF_vars(WorkerStep(w) \/ UUploadFailed(w) \/ UCancelled(w))
          /\ WF_vars(LocalStep(w))
          /\ WF_vars(SSend(w) \/ SSendCancelled(w) \/ WExit(w))
    /\ WF_vars(STick \/ SVisit \/ SReadKey \/ SDone \/ SAbort \/ SExit)

\* the scan loop and its workers, the context being cancelled at any moment
SpecCancel == InitLoop /\ [][CancelNext]_vars /\ FairCancel

----------------------------------------------------------------------------
(* Claims about the cancellation of the upload loop *)

\* the goroutine of startScanLoop and every worker have returned
AllExited == scan.pc = "exit" /\ \A w \in Workers : hy[w].pc = "exit"

\* C20 (as claimed): once the context is done, no walk starts any more, and
\* the goroutine of startScanLoop and every worker eventually return.
C20_LoopExits ==
    /\ [][ctx = "done" => ~(scan.pc = "wait" /\ scan'.pc = "walk")]_vars
    /\ [](ctx = "done" => <>AllExited)

\* the context is done and every worker has returned, while ScanKeys is
\* still sending a key nobody receives any more
C20_Stuck ==
    /\ ctx = "done" /\ scan.pc = "send"
    /\ \A w \in Workers : hy[w].pc = "exit"

----------------------------------------------------------------------------
(* ScanKeys of the local store, called by a client with a key function and *)
(* an error function                                                        *)

\* the names of directory d as filepath.Walk reads them: sorted
RECURSIVE NamesIn(_, _)
NamesIn(d, names) ==
    IF names = << >> THEN << >>
    ELSE IF Exists(fs[d].files[Head(names)])
    THEN <<Head(names)>> \o NamesIn(d, Tail(names))
    ELSE NamesIn(d, Tail(names))

readDirNames(d) ==
    NamesIn(d, <<DataFilename, GzipDataFilename, KeyFilename>>)

\* a ScanKeys call that has not begun: keyCont and errCont are what its key
\* function and its error function return (true: continue), keys the keys
\* the key function got, errs the paths and errors the error function got,
\* err the error ScanKeys returned
ScanCall ==
    [ pc |-> "idle", todo |-> << >>, names |-> << >>, key |-> "k1",
      keyCont |-> TRUE, errCont |-> TRUE,
      keys |-> << >>, errs |-> << >>, err |-> "nil",
      \* ghost fields: the keys that were committed, with no Write or Delete
      \* of theirs in progress, when ScanKeys was called (pre), the number
      \* of operations issued by then (n0), the state of the context when
      \* ScanKeys returned (ctx)
      pre |-> {}, n0 |-> 0, ctx |-> "live" ]

\* ScanKeys returns err
ScanRet(s, err) == [s EXCEPT !.pc = "ret", !.err = err, !.ctx = ctx]

\* the walk moves on to the next name of the directory, or to the next
\* directory after the last name
NextName(s) ==
    IF Len(s.names) > 1
    THEN [s EXCEPT !.pc = "file", !.names = Tail(@)]
    ELSE [s EXCEPT !.pc = "walk", !.names = << >>, !.todo = Tail(@)]

\* filepath.SkipDir returned for a file: the rest of its directory is skipped
SkipDir(s) == [s EXCEPT !.pc = "walk", !.names = << >>, !.todo = Tail(@)]

\* errFunc(path, err): true makes the walk go on as cont, false makes
\* ScanKeys return err
ErrFunc(path, err, cont) ==
    LET s == [cont EXCEPT !.errs = Append(@, <<path, err>>)] IN
    IF scan.errCont THEN s
    ELSE ScanRet([scan EXCEPT !.errs = Append(@, <<path, err>>)], err)

\* the keys that are committed and have no Write or Delete in progress
Quiescent ==
    {k \in Keys : CommittedVal(GetDirForKey(k), k) # {}
                  /\ InFlightMut(GetDirForKey(k)) = {}}

\* ScanKeys is called: the context is checked, then the walk reads the names
\* of the data root
ScanKeysStart(keyCont, errCont) ==
    /\ scan.pc = "idle"
    /\ LET s == [scan EXCEPT !.keyCont = keyCont, !.errCont = errCont,
                             !.pre = Quiescent, !.n0 = Issued(LClients)]
       IN scan' = IF ctx = "done"
                  THEN ScanRet(s, "context.Canceled")
                  ELSE [s EXCEPT !.pc = "walk",
                                 !.todo = Listing(<<"d1", "d2">>)]
    /\ UNCHANGED <<fs, proc, gh, bucket, locks, hy, opts, latest, ctx, rl, eb, dk, pl>>

\* mutant of ScanKeysDir: a directory that is gone ends the walk silently
ScanKeysDirGoneEnds ==
    /\ scan.pc = "walk" /\ scan.todo # << >>
    /\ ctx = "live"
    /\ LET d == Head(scan.todo) IN
       IF ~fs[d].exists
       THEN /\ scan' = ScanRet(scan, "nil")
            /\ UNCHANGED <<fs, proc>>
       ELSE /\ fs' = IF Present(d) = {}
                     THEN [fs EXCEPT ![d].exists = FALSE] ELSE fs
            /\ proc' = Mark(d, proc)
            /\ scan' = IF Present(d) = {}
                       THEN [scan EXCEPT !.todo = Tail(@)]
                       ELSE [scan EXCEPT !.pc = "file",
                                         !.names = readDirNames(d)]
    /\ UNCHANGED <<gh, bucket, locks, hy, opts, latest, ctx, rl, eb, dk, pl>>

\* the walk comes to a directory, the context not being done: when os.Lstat
\* fails the error goes to errFunc; otherwise its names are read and
\* os.Remove removes it when it is empty
ScanKeysDir ==
    /\ scan.pc = "walk" /\ scan.todo # << >>
    /\ ctx = "live"
    /\ LET d == Head(scan.todo) IN
       IF ~fs[d].exists
       THEN /\ scan' = ErrFunc(<<d>>, "ENOENT", [scan EXCEPT !.todo = Tail(@)])
            /\ UNCHANGED <<fs, proc>>
       ELSE /\ fs' = IF Present(d) = {}
                     THEN [fs EXCEPT ![d].exists = FALSE] ELSE fs
            /\ proc' = Mark(d, proc)
            /\ scan' = IF Present(d) = {}
                       THEN [scan EXCEPT !.todo = Tail(@)]
                       ELSE [scan EXCEPT !.pc = "file",
                                         !.names = readDirNames(d)]
    /\ UNCHANGED <<gh, bucket, locks, hy, opts, latest, ctx, rl, eb, dk, pl>>

\* mutant of ScanKeysFile: a data file in a directory without a key file is
\* removed
ScanKeysFileReaps ==
    /\ scan.pc = "file"
    /\ ctx = "live"
    /\ LET d == Head(scan.todo)
           f == Head(scan.names)
       IN /\ scan' = IF ~Exists(fs[d].files[f])
                     THEN ErrFunc(<<d, f>>, "ENOENT", NextName(scan))
                     ELSE IF f = KeyFilename
                     THEN [scan EXCEPT !.pc = "readkey"]
                     ELSE NextName(scan)
          /\ fs' = IF f # KeyFilename /\ ~Exists(fs[d].files[KeyFilename])
                   THEN [fs EXCEPT ![d].files[f] = Absent]
                   ELSE fs
    /\ UNCHANGED <<proc, gh, bucket, locks, hy, opts, latest, ctx, rl, eb, dk, pl>>

\* mutant of ScanKeysFile: the context is not checked
ScanKeysFileNoCheck ==
    /\ scan.pc = "file"
    /\ LET d == Head(scan.todo)
           f == Head(scan.names)
       IN scan' = IF ~Exists(fs[d].files[f])
                  THEN ErrFunc(<<d, f>>, "ENOENT", NextName(scan))
                  ELSE IF f = KeyFilename
                  THEN [scan EXCEPT !.pc = "readkey"]
                  ELSE NextName(scan)
    /\ UNCHANGED <<fs, proc, gh, bucket, locks, hy, opts, latest, ctx, rl, eb, dk, pl>>

\* the walk comes to a name of the directory, the context not being done:
\* when os.Lstat fails the error goes to errFunc; a key file is read next,
\* any other file is passed over
ScanKeysFile ==
    /\ scan.pc = "file"
    /\ ctx = "live"
    /\ LET d == Head(scan.todo)
           f == Head(scan.names)
       IN scan' = IF ~Exists(fs[d].files[f])
                  THEN ErrFunc(<<d, f>>, "ENOENT", NextName(scan))
                  ELSE IF f = KeyFilename
                  THEN [scan EXCEPT !.pc = "readkey"]
                  ELSE NextName(scan)
    /\ UNCHANGED <<fs, proc, gh, bucket, locks, hy, opts, latest, ctx, rl, eb, dk, pl>>

\* mutant of ScanKeysReadKey: an error of readKey ends the walk whatever
\* errFunc returns
ScanKeysReadKeyStops ==
    /\ scan.pc = "readkey"
    /\ LET d == Head(scan.todo)
           r == readKey(d)
       IN scan' = IF r.err # "nil"
                  THEN ScanRet([scan EXCEPT
                                  !.errs = Append(@, <<<<d, KeyFilename>>,
                                                       r.err>>)], r.err)
                  ELSE [scan EXCEPT !.pc = "keyfunc", !.key = r.key,
                                    !.keys = Append(@, r.key)]
    /\ UNCHANGED <<fs, proc, gh, bucket, locks, hy, opts, latest, ctx, rl, eb, dk, pl>>

\* readKey(path) of the key file: an error goes to errFunc, which has the
\* rest of the directory skipped; a key goes to keyFunc
ScanKeysReadKey ==
    /\ scan.pc = "readkey"
    /\ LET d == Head(scan.todo)
           r == readKey(d)
       IN scan' = IF r.err # "nil"
                  THEN ErrFunc(<<d, KeyFilename>>, r.err, SkipDir(scan))
                  ELSE [scan EXCEPT !.pc = "keyfunc", !.key = r.key,
                                    !.keys = Append(@, r.key)]
    /\ UNCHANGED <<fs, proc, gh, bucket, locks, hy, opts, latest, ctx, rl, eb, dk, pl>>

\* mutant of ScanKeysKeyFunc: false from keyFunc is ignored
ScanKeysKeyFuncIgnored ==
    /\ scan.pc = "keyfunc"
    /\ scan' = NextName(scan)
    /\ UNCHANGED <<fs, proc, gh, bucket, locks, hy, opts, latest, ctx, rl, eb, dk, pl>>

\* keyFunc returns: true lets the walk go on, false (errCanceled) ends it
\* and ScanKeys returns nil
ScanKeysKeyFunc ==
    /\ scan.pc = "keyfunc"
    /\ scan' = IF scan.keyCont THEN NextName(scan) ELSE ScanRet(scan, "nil")
    /\ UNCHANGED <<fs, proc, gh, bucket, locks, hy, opts, latest, ctx, rl, eb, dk, pl>>

\* the walk comes to a path and finds the context done: ScanKeys returns
\* ctx.Err()
ScanKeysCancelled ==
    /\ \/ scan.pc = "walk" /\ scan.todo # << >>
       \/ scan.pc = "file"
    /\ ctx = "done"
    /\ scan' = ScanRet(scan, "context.Canceled")
    /\ UNCHANGED <<fs, proc, gh, bucket, locks, hy, opts, latest, ctx, rl, eb, dk, pl>>

\* the walk is over: ScanKeys returns nil
ScanKeysEnd ==
    /\ scan.pc = "walk" /\ scan.todo = << >>
    /\ scan' = ScanRet(scan, "nil")
    /\ UNCHANGED <<fs, proc, gh, bucket, locks, hy, opts, latest, ctx, rl, eb, dk, pl>>

ScanKeysStep ==
    \/ ScanKeysDir \/ ScanKeysFile \/ ScanKeysReadKey \/ ScanKeysKeyFunc
    \/ ScanKeysCancelled \/ ScanKeysEnd

\* a data root left by earlier runs, where k1 and k3 are committed or not
InitScan ==
    /\ fs \in [Dirs -> {[exists |-> FALSE, files |-> EmptyDir],
                        Committed("k1", VA), Committed("k3", VA)}]
    /\ fs["d1"] # Committed("k3", VA) /\ fs["d2"] # Committed("k1", VA)
    /\ proc = [t \in Threads |-> Blank]
    /\ gh = [d \in Dirs |->
               [lastw |-> NoEntry, overl |-> FALSE, mixed |-> FALSE,
                switched |-> FALSE, del |-> {}, wr |-> {}]]
    /\ bucket = [name \in RemoteNames |-> Absent]
    /\ locks = [k \in HKeys |-> 0]
    /\ hy = [t \in HThreads |-> HBlank]
    /\ scan = ScanCall
    /\ latest = [k \in HKeys |-> << >>]
    /\ ctx = "live"
    /\ rl = NewRowLock
    /\ eb = NewErrBatch
    /\ dk = NoDirCall
    /\ pl = NewPool(PoolMaxSize)
    /\ opts = DefaultOptions

\* the client of the local store that works while ScanKeys runs
ScanMutators == {1}

\* one ScanKeys call whose context may be cancelled, while a client of the
\* local store writes and deletes k1, whose directory the walk visits first
ScanNext ==
    \/ \E keyCont \in BOOLEAN, errCont \in BOOLEAN :
          ScanKeysStart(keyCont, errCont)
    \/ ScanKeysStep
    \/ Cancel
    \/ \E t \in ScanMutators : StartOp(t, "Write", "k1", VB, FALSE)
    \/ \E t \in ScanMutators : StartOp(t, "Delete", "k1", VEmpty, FALSE)
    \/ \E t \in ScanMutators : LocalStep(t)

SpecScan == InitScan /\ [][ScanNext]_vars

----------------------------------------------------------------------------
(* C21 *)

\* the keys the key function got
ScannedKeys == {scan.keys[i] : i \in 1 .. Len(scan.keys)}

\* no Write or Delete of key was called since ScanKeys was called: the
\* client that works during the scan touches the keys of d1 only
Untouched(key) ==
    GetDirForKey(key) # "d1" \/ Issued(LClients) = scan.n0

\* a ScanKeys call has returned whose callbacks both continue and whose
\* context was not found done
ScanRanThrough ==
    /\ scan.pc = "ret"
    /\ scan.keyCont /\ scan.errCont
    /\ scan.err # "context.Canceled"

\* C21: a ScanKeys call whose error function continues returns nil whatever
\* files vanish during the walk, and has passed to the key function every
\* key that was committed when it was called and was not written or deleted
\* since, while other keys are written and deleted; what the key function
\* gets is always the content the key file has at that moment
C21_ScanKeys ==
    /\ [](ScanRanThrough =>
            /\ scan.err = "nil"
            /\ \A k \in scan.pre : Untouched(k) => k \in ScannedKeys)
    /\ [][scan'.keys # scan.keys =>
            /\ scan.pc = "readkey"
            /\ scan'.keys =
                 Append(scan.keys,
                        Content(fs[Head(scan.todo)].files[KeyFilename]))]_vars

\* a scan has returned nil with the key of a quiescent directory, after its
\* error function got the error of a path that vanished in a directory
\* written and deleted meanwhile
C21_Witness ==
    /\ ScanRanThrough
    /\ "k3" \in scan.pre /\ "k3" \in ScannedKeys
    /\ scan.errs # << >>
    /\ Issued(LClients) > scan.n0

----------------------------------------------------------------------------
(* C22 *)

\* C22: when the key function returns false, ScanKeys returns nil at once:
\* neither callback is called again, so that a returned scan whose key
\* function stops has passed one key at most
C22_KeyFuncStops ==
    /\ [][scan.pc = "keyfunc" /\ ~scan.keyCont /\ scan' # scan =>
            /\ scan'.pc = "ret" /\ scan'.err = "nil"
            /\ scan'.keys = scan.keys /\ scan'.errs = scan.errs]_vars
    /\ [][scan.pc = "ret" => scan' = scan]_vars
    /\ [](scan.pc = "ret" /\ ~scan.keyCont /\ scan.keys # << >> =>
            scan.err = "nil" /\ Len(scan.keys) = 1)

\* a scan has returned nil after its key function returned false for k1,
\* and k3, committed in the directory the walk had not come to, was not
\* passed
C22_Witness ==
    /\ scan.pc = "ret" /\ ~scan.keyCont
    /\ scan.keys = <<"k1">> /\ scan.err = "nil"
    /\ CommittedVal("d2", "k3") # {} /\ "k3" \in scan.pre

----------------------------------------------------------------------------
(* C23 *)

\* the path the walk is at
ScanPath ==
    IF scan.pc = "walk" THEN <<Head(scan.todo)>>
    ELSE IF scan.pc = "file" THEN <<Head(scan.todo), Head(scan.names)>>
    ELSE <<Head(scan.todo), KeyFilename>>

\* the file-system call the walk makes next fails: the path is gone
ScanIoFails ==
    \/ /\ scan.pc = "walk" /\ scan.todo # << >> /\ ctx = "live"
       /\ ~fs[Head(scan.todo)].exists
    \/ /\ scan.pc = "file" /\ ctx = "live"
       /\ ~Exists(fs[Head(scan.todo)].files[Head(scan.names)])
    \/ /\ scan.pc = "readkey"
       /\ ~Exists(fs[Head(scan.todo)].files[KeyFilename])

\* C23: an I/O error of the walk goes to the error function with its path;
\* when the function returns true the walk goes on behind that path (behind
\* its directory when the path is a directory or a key file) and no key is
\* passed for it, when it returns false ScanKeys returns that error; and
\* ScanKeys returns no other error but the one of its context
C23_ErrFunc ==
    /\ [][scan' # scan =>
            (ScanIoFails <=> scan'.errs # scan.errs)]_vars
    /\ [][scan'.errs # scan.errs =>
            /\ scan'.errs = Append(scan.errs, <<ScanPath, "ENOENT">>)
            /\ scan'.keys = scan.keys
            /\ IF scan.errCont
               THEN /\ scan'.pc \in {"walk", "file"}
                    /\ \/ scan'.todo = Tail(scan.todo)
                       \/ /\ scan.pc = "file"
                          /\ scan'.todo = scan.todo
                          /\ scan'.names = Tail(scan.names)
               ELSE scan'.pc = "ret" /\ scan'.err = "ENOENT"]_vars
    /\ [](scan.pc = "ret" /\ scan.err \notin {"nil", "context.Canceled"} =>
            /\ ~scan.errCont /\ scan.errs # << >>
            /\ scan.err = scan.errs[Len(scan.errs)][2])

\* a scan whose error function stops has returned the error of the key file
\* of d1, which vanished before readKey opened it
C23_Witness ==
    /\ scan.pc = "ret" /\ ~scan.errCont
    /\ scan.err = "ENOENT"
    /\ scan.errs = << <<<<"d1", KeyFilename>>, "ENOENT">> >>

----------------------------------------------------------------------------
(* C24 *)

\* ScanKeys is at one of its context checks: its call, or a path of the walk
AtCheck ==
    \/ scan.pc = "idle"
    \/ scan.pc = "walk" /\ scan.todo # << >>
    \/ scan.pc = "file"

\* C24 as claimed: a ScanKeys call whose context was done before it
\* returned has returned the error of the context
C24_AlwaysCtxError ==
    scan.pc = "ret" /\ scan.ctx = "done" => scan.err = "context.Canceled"

\* C24: ScanKeys checks its context when it is called and at every
\* directory and file the walk comes to; a check that finds the context done
\* makes ScanKeys return the error of the context, and no callback is called
\* for that path or a later one; ScanKeys returns that error in no other case
C24_CheckAtEachPath ==
    /\ [][ctx = "done" /\ AtCheck /\ scan' # scan =>
            /\ scan'.pc = "ret" /\ scan'.err = "context.Canceled"
            /\ scan'.keys = scan.keys /\ scan'.errs = scan.errs]_vars
    /\ [][ctx = "done" /\ scan'.keys # scan.keys => scan.pc = "readkey"]_vars
    /\ [](scan.pc = "ret" /\ scan.err = "context.Canceled" =>
            scan.ctx = "done")

\* the context was cancelled while the key function had k1: ScanKeys has
\* returned the error of the context at the next path, and k3, committed
\* behind it, was not passed
C24_Witness ==
    /\ scan.pc = "ret" /\ scan.err = "context.Canceled"
    /\ scan.keys = <<"k1">> /\ scan.keyCont
    /\ CommittedVal("d2", "k3") # {} /\ "k3" \in scan.pre

----------------------------------------------------------------------------
(* Package rowlock: RowLock.Lock and RowLock.Unlock, with the pool of      *)
(* package pool that keeps the lockers getLocker did not store              *)

\* the positions of getLocker, in Lock and in Unlock
InGetLocker == {"get", "store", "put"}

\* a goroutine calls Lock(row)
RowLockCall(t, row) ==
    /\ rl.g[t].pc = "idle"
    /\ rl.g[t].n < MaxRowOps
    /\ rl' = [rl EXCEPT !.g[t] = [@ EXCEPT !.pc = "get", !.op = "Lock",
                                           !.row = row, !.n = @ + 1,
                                           !.newLocker = 0, !.locker = 0,
                                           !.fresh = (rl.locks[row] = 0)]]
    /\ UNCHANGED <<fs, proc, gh, bucket, locks, hy, scan, opts, latest, ctx, eb, dk, pl>>

\* a goroutine that holds the lock of its row calls Unlock(row)
RowUnlockCall(t) ==
    /\ rl.g[t].pc = "holds"
    /\ rl' = [rl EXCEPT !.g[t] = [@ EXCEPT !.pc = "get", !.op = "Unlock",
                                           !.newLocker = 0, !.locker = 0]]
    /\ UNCHANGED <<fs, proc, gh, bucket, locks, hy, scan, opts, latest, ctx, eb, dk, pl>>

\* mutant of PoolGet: the generator returns the same locker every time
PoolGetShared(t) ==
    /\ rl.g[t].pc = "get"
    /\ rl' = IF rl.pool = << >>
             THEN [rl EXCEPT !.made = 1,
                             !.g[t].newLocker = 1,
                             !.g[t].pc = "store"]
             ELSE [rl EXCEPT !.pool = Tail(@),
                             !.g[t].newLocker = Head(rl.pool),
                             !.g[t].pc = "store"]
    /\ UNCHANGED <<fs, proc, gh, bucket, locks, hy, scan, opts, latest, ctx, eb, dk, pl>>

\* lockerPool.Get(rl.g), under the mutex of the pool: the head of the pool,
\* or a new locker from the generator when the pool is empty
PoolGet(t) ==
    /\ rl.g[t].pc = "get"
    /\ rl' = IF rl.pool = << >>
             THEN [rl EXCEPT !.made = @ + 1,
                             !.g[t].newLocker = rl.made + 1,
                             !.g[t].pc = "store"]
             ELSE [rl EXCEPT !.pool = Tail(@),
                             !.g[t].newLocker = Head(rl.pool),
                             !.g[t].pc = "store"]
    /\ UNCHANGED <<fs, proc, gh, bucket, locks, hy, scan, opts, latest, ctx, eb, dk, pl>>

\* mutant of LoadOrStore: the new locker is stored whether the row has one
\* or not
StoreAlways(t) ==
    /\ rl.g[t].pc = "store"
    /\ rl' = [rl EXCEPT !.locks[rl.g[t].row] = rl.g[t].newLocker,
                        !.g[t].locker = rl.g[t].newLocker,
                        !.g[t].pc = "mutex"]
    /\ UNCHANGED <<fs, proc, gh, bucket, locks, hy, scan, opts, latest, ctx, eb, dk, pl>>

\* rl.locks.LoadOrStore(row, newLocker), atomic: the locker of the row when
\* it has one (loaded), else the new locker, which becomes the row's
LoadOrStore(t) ==
    /\ rl.g[t].pc = "store"
    /\ LET row == rl.g[t].row IN
       rl' = IF rl.locks[row] = 0
             THEN [rl EXCEPT !.locks[row] = rl.g[t].newLocker,
                             !.g[t].locker = rl.g[t].newLocker,
                             !.g[t].pc = "mutex"]
             ELSE [rl EXCEPT !.g[t].locker = rl.locks[row],
                             !.g[t].pc = "put"]
    /\ UNCHANGED <<fs, proc, gh, bucket, locks, hy, scan, opts, latest, ctx, eb, dk, pl>>

\* lockerPool.Put(newLocker), under the mutex of the pool: the locker that
\* was not stored goes to the tail of the pool unless the pool is full
PoolPut(t) ==
    /\ rl.g[t].pc = "put"
    /\ rl' = IF Len(rl.pool) >= LockerPoolMaxSize
             THEN [rl EXCEPT !.g[t].pc = "mutex"]
             ELSE [rl EXCEPT !.pool = Append(@, rl.g[t].newLocker),
                             !.g[t].pc = "mutex"]
    /\ UNCHANGED <<fs, proc, gh, bucket, locks, hy, scan, opts, latest, ctx, eb, dk, pl>>

\* sync.Mutex.Lock of the locker getLocker returned: waits while the mutex
\* is locked; Lock(row) returns
MutexLock(t) ==
    /\ rl.g[t].pc = "mutex" /\ rl.g[t].op = "Lock"
    /\ rl.g[t].locker \notin rl.locked
    /\ rl' = [rl EXCEPT !.locked = @ \cup {rl.g[t].locker},
                        !.g[t].pc = "holds"]
    /\ UNCHANGED <<fs, proc, gh, bucket, locks, hy, scan, opts, latest, ctx, eb, dk, pl>>

\* sync.Mutex.Unlock of the locker getLocker returned; Unlock(row) returns
MutexUnlock(t) ==
    /\ rl.g[t].pc = "mutex" /\ rl.g[t].op = "Unlock"
    /\ rl' = [rl EXCEPT !.locked = @ \ {rl.g[t].locker},
                        !.g[t].pc = "idle", !.g[t].op = "none"]
    /\ UNCHANGED <<fs, proc, gh, bucket, locks, hy, scan, opts, latest, ctx, eb, dk, pl>>

\* one step of the call goroutine t is in
RowLockStep(t) ==
    \/ PoolGet(t) \/ LoadOrStore(t) \/ PoolPut(t)
    \/ MutexLock(t) \/ MutexUnlock(t)

RowLockNext ==
    \/ \E t \in RowClients, row \in Rows : RowLockCall(t, row)
    \/ \E t \in RowClients : RowUnlockCall(t)
    \/ \E t \in RowClients : RowLockStep(t)

SpecRowLock == Init /\ [][RowLockNext]_vars

----------------------------------------------------------------------------
(* C25 *)

\* goroutine t is between the return of its Lock(row) and the return of the
\* Unlock(row) that follows
HoldsRow(t, row) ==
    /\ rl.g[t].row = row
    /\ \/ rl.g[t].pc = "holds"
       \/ rl.g[t].op = "Unlock"

\* C25: no two goroutines hold the lock of the same row at once, whether the
\* row had a locker when their Lock calls began or not; a Lock call returns
\* only when no goroutine holds the row, and an Unlock releases the mutex
\* that the Lock of its goroutine locked
C25_MutualExclusion ==
    /\ [](\A t, u \in RowClients, row \in Rows :
            HoldsRow(t, row) /\ HoldsRow(u, row) => t = u)
    /\ [][\A t \in RowClients :
            rl.g[t].pc # "holds" /\ rl'.g[t].pc = "holds" =>
               \A u \in RowClients : ~HoldsRow(u, rl.g[t].row)]_vars
    /\ [](\A t \in RowClients :
            HoldsRow(t, rl.g[t].row) =>
               rl.locks[rl.g[t].row] \in rl.locked)

\* two goroutines entered Lock(r1) when r1 had no locker yet, each with a
\* new locker of its own: one holds r1, the other waits for the mutex the
\* first one stored
C25_Witness ==
    /\ rl.g[1].fresh /\ rl.g[2].fresh
    /\ HoldsRow(1, "r1") /\ rl.g[1].pc = "holds"
    /\ rl.g[2].row = "r1" /\ rl.g[2].op = "Lock" /\ rl.g[2].pc = "mutex"
    /\ rl.g[2].locker = rl.g[1].locker
    /\ rl.g[2].newLocker # rl.g[2].locker

----------------------------------------------------------------------------
(* C26 *)

\* some goroutine holds the lock of row
RowHeld(row) == \E u \in RowClients : HoldsRow(u, row)

\* C26: the rows have lockers of their own, and a Lock call on a row that no
\* goroutine holds can take its next step whatever other rows are held: it
\* never waits
C26_DistinctRows ==
    /\ \A r1, r2 \in Rows :
          r1 # r2 /\ rl.locks[r1] # 0 => rl.locks[r1] # rl.locks[r2]
    /\ \A t \in RowClients :
          rl.g[t].op = "Lock" /\ rl.g[t].pc \in InGetLocker \cup {"mutex"}
          /\ ~RowHeld(rl.g[t].row)
          => ENABLED RowLockStep(t)

\* r1 is held while a Lock(r2) call is about to lock the mutex of r2, which
\* no goroutine holds
C26_Witness ==
    /\ HoldsRow(1, "r1")
    /\ rl.g[2].op = "Lock" /\ rl.g[2].row = "r2" /\ rl.g[2].pc = "mutex"
    /\ ~RowHeld("r2")

----------------------------------------------------------------------------
(* Package errbatch: Add with an ErrBatch as its argument, and Compile    *)

\* the errors that are no batches: nil and two errors
PlainErrors == {"nil", "e1", "e2"}

\* what can be passed to Add: an error that is no batch (err), or a batch
\* with the errors it got from its own Add calls (errors)
Plain(err) == [isBatch |-> FALSE, err |-> err, errors |-> << >>]
Batch(errors) == [isBatch |-> TRUE, err |-> "nil", errors |-> errors]

Arguments ==
    {Plain(err) : err \in PlainErrors}
    \cup {Batch(<< >>)}
    \cup {Batch(<<a>>) : a \in PlainErrors \ {"nil"}}
    \cup {Batch(<<a, b>>) : a, b \in PlainErrors \ {"nil"}}

\* mutant of AddBatch: the batch is added as one error
AddBatchNested(errors, batch) == Append(errors, "ErrBatch")

\* ErrBatch.Add of an ErrBatch: Add of each of its errors, in their order
RECURSIVE AddBatch(_, _)
AddBatch(errors, batch) ==
    IF batch = << >> THEN errors
    ELSE AddBatch(Add(errors, Head(batch)), Tail(batch))

\* ErrBatch.Add
ErrBatchAdd(errors, arg) ==
    IF arg.isBatch THEN AddBatch(errors, arg.errors)
    ELSE Add(errors, arg.err)

\* eb.Add(arg)
AddCall(arg) ==
    /\ Len(eb.added) < MaxAdds
    /\ eb' = [errors |-> ErrBatchAdd(eb.errors, arg),
              added |-> Append(eb.added, arg),
              ret |-> << >>]
    /\ UNCHANGED <<fs, proc, gh, bucket, locks, hy, scan, opts, latest, ctx, rl, dk, pl>>

\* eb.Compile()
CompileCall ==
    /\ eb.ret = << >>
    /\ eb' = [eb EXCEPT !.ret = <<Compile(eb.errors)>>]
    /\ UNCHANGED <<fs, proc, gh, bucket, locks, hy, scan, opts, latest, ctx, rl, dk, pl>>

ErrBatchNext ==
    \/ \E arg \in Arguments : AddCall(arg)
    \/ CompileCall

SpecErrBatch == Init /\ [][ErrBatchNext]_vars

----------------------------------------------------------------------------
(* C27 *)

\* the non-nil errors an argument of Add stands for: itself, or the members
\* of the batch
Members(arg) ==
    IF arg.isBatch THEN arg.errors
    ELSE IF arg.err = "nil" THEN << >> ELSE <<arg.err>>

\* the members of the arguments, in the order added
RECURSIVE AllMembers(_)
AllMembers(args) ==
    IF args = << >> THEN << >>
    ELSE Members(Head(args)) \o AllMembers(Tail(args))

\* C27: the batch holds the non-nil errors added, in the order added, with
\* every batch replaced by its members; Compile returns nil when there is
\* none, the error itself when there is one, the batch otherwise
C27_AddCompile ==
    /\ eb.errors = AllMembers(eb.added)
    /\ eb.ret # << >> =>
          eb.ret[1] = IF AllMembers(eb.added) = << >> THEN "nil"
                      ELSE IF Len(AllMembers(eb.added)) = 1
                      THEN AllMembers(eb.added)[1]
                      ELSE "ErrBatch"

\* Compile has returned the batch after an error, an empty batch and a
\* batch of two errors were added
C27_Witness ==
    /\ eb.added = <<Plain("e1"), Batch(<< >>), Batch(<<"e2", "e1">>)>>
    /\ eb.errors = <<"e1", "e2", "e1">>
    /\ eb.ret = <<"ErrBatch">>

----------------------------------------------------------------------------
(* The local Write under a context that may be cancelled                   *)

\* the positions of Write at which it looks at its context: when it is
\* called, after the collision check while it stages its files, and after
\* the data file is in place, before the key file is moved
WriteCheckpoints == {"w_lstat", "w_mkdir", "w_rename_key"}

AtCheckpoint(t) == proc[t].op = "Write" /\ proc[t].pc \in WriteCheckpoints

\* Write finds its context done: it returns ctx.Err()
WCancelled(t) ==
    /\ AtCheckpoint(t)
    /\ ctx = "done"
    /\ proc' = WRet(t, "context.Canceled")
    /\ UNCHANGED <<fs, gh, hvars>>

\* one file-system call of the Write goroutine t is in, its context not
\* being done when it is at a checkpoint
WriteStep(t) ==
    /\ AtCheckpoint(t) => ctx = "live"
    /\ \/ WLstat(t) \/ WCheckKey(t) \/ WMkdir(t) \/ WRenameData(t)
       \/ WRemoveOther(t) \/ WRenameKey(t)
    /\ UNCHANGED hvars

\* local Read(key) by a handle with preference useGzip when no other call
\* runs during it
ReadAlone(key, useGzip) ==
    LET d == GetDirForKey(key)
        c == checkKeyCollision(key, d)
        first == IF useGzip THEN readGzip(d) ELSE readPlain(d)
        second == IF useGzip THEN readPlain(d) ELSE readGzip(d)
    IN
    IF ~Exists(fs[d].files[KeyFilename])
    THEN [err |-> "NoSuchKey", out |-> VEmpty]
    ELSE IF c.err # "nil" THEN [err |-> c.err, out |-> VEmpty]
    ELSE IF first.err # "ENOENT" THEN first
    ELSE IF second.err # "ENOENT" THEN second
    ELSE [err |-> "NoSuchKey", out |-> VEmpty]

\* the clients write k1, under either compression preference, with one
\* context, which may be cancelled
WriteNext ==
    \/ \E t \in LClients, val \in LValues, useGzip \in BOOLEAN :
          StartOp(t, "Write", "k1", val, useGzip)
    \/ \E t \in LClients : WriteStep(t)
    \/ \E t \in LClients : WCancelled(t)
    \/ Cancel

SpecWrite == Init /\ [][WriteNext]_vars

----------------------------------------------------------------------------
(* C28 *)

\* what Read returned for the key of t before t was called
PrevVal(t) ==
    IF Pre(t).lastw = NoEntry
    THEN [err |-> "NoSuchKey", out |-> VEmpty]
    ELSE [err |-> "nil", out |-> Pre(t).lastw[1].val]

\* the value t writes, as Read returns it
NewVal(t) == [err |-> "nil", out |-> proc[t].val]

\* no other Write ran during the Write of t so far, nor did Writes overlap
\* before it
Undisturbed(t) == ~proc[t].dist /\ ~Pre(t).overl

\* the Write of t has moved its data file and not yet its key file
BetweenRenames(t) ==
    /\ proc[t].op = "Write"
    /\ proc[t].pc \in {"w_remove_other", "w_rename_key"}

\* C28 as claimed: between the rename of the data file and the rename of
\* the key file, Read returns what it returned before the Write
C28_OnlyAtCommit ==
    \A t \in LClients, useGzip \in BOOLEAN :
        BetweenRenames(t) /\ Undisturbed(t)
        => ReadAlone(proc[t].key, useGzip) = PrevVal(t)

\* C28: between the two renames Read returns NoSuchKey when the key had no
\* entry; when it had one, Read returns the old or the new value: the new
\* one to a handle of the Write's preference, and to every handle once the
\* data file of the other variant is removed
C28_VisibleAtDataRename ==
    \A t \in LClients :
        BetweenRenames(t) /\ Undisturbed(t)
        => IF Pre(t).lastw = NoEntry
           THEN \A useGzip \in BOOLEAN :
                   ReadAlone(proc[t].key, useGzip) = PrevVal(t)
           ELSE /\ \A useGzip \in BOOLEAN :
                      ReadAlone(proc[t].key, useGzip) \in {PrevVal(t), NewVal(t)}
                /\ ReadAlone(proc[t].key, proc[t].useGzip) = NewVal(t)
                /\ proc[t].pc = "w_rename_key" =>
                      \A useGzip \in BOOLEAN :
                         ReadAlone(proc[t].key, useGzip) = NewVal(t)

\* an overwrite has moved its data file and not its key file, and Read
\* returns the new value, which differs from the old one
C28_Witness ==
    \E t \in LClients :
        /\ BetweenRenames(t) /\ Undisturbed(t)
        /\ Pre(t).lastw # NoEntry
        /\ PrevVal(t) # NewVal(t)
        /\ ReadAlone(proc[t].key, proc[t].useGzip) = NewVal(t)

----------------------------------------------------------------------------
(* C29 *)

\* C29 (as claimed): when no Write is in progress and every Write has
\* returned nil, a directory with a key file has exactly one data file
C29_OneDataFile ==
    \A d \in Dirs :
        InFlightMut(d) = {} /\ ctx = "live"
        /\ Exists(fs[d].files[KeyFilename])
        => Exists(fs[d].files[DataFilename])
              # Exists(fs[d].files[GzipDataFilename])

----------------------------------------------------------------------------
(* C30 *)

\* C30 (as claimed): after a Write that returned the error of its context,
\* Read returns what it returned before that Write
C30_CancelledWrite ==
    \A t \in LClients, useGzip \in BOOLEAN :
        /\ Done(t) /\ proc[t].op = "Write"
        /\ proc[t].err = "context.Canceled"
        /\ Undisturbed(t) /\ InFlightMut(Dir(t)) = {}
        /\ gh[Dir(t)].lastw = Pre(t).lastw
        => ReadAlone(proc[t].key, useGzip) = PrevVal(t)

\* a Write returned the error of its context and Read returns its value
C30_Exposed ==
    \E t \in LClients :
        /\ Done(t) /\ proc[t].op = "Write"
        /\ proc[t].err = "context.Canceled"
        /\ Undisturbed(t) /\ InFlightMut(Dir(t)) = {}
        /\ PrevVal(t) # NewVal(t)
        /\ ReadAlone(proc[t].key, proc[t].useGzip) = NewVal(t)

----------------------------------------------------------------------------
(* C31 *)

\* the positions of the hybrid code between Lock and the deferred Unlock:
\* the local Write of a Write; the re-check, the local Write and the final
\* Read of a fill; the CRC re-check and the local Delete of uploadKey
Sections == {"h_write", "h_read2", "h_fill", "h_read3", "u_read2", "u_delete"}

\* goroutine t is in such a section for key
InSection(t, key) ==
    hy[t].key = key /\ hy[t].held /\ hy[t].pc \in Sections

\* goroutine t is between a re-check and the local Write or Delete that
\* depends on what it found
PastRecheck(t, key) ==
    hy[t].key = key /\ hy[t].held /\ hy[t].pc \in {"h_read2", "h_fill",
                                                    "u_read2", "u_delete"}

\* C31: with the row lock in use no two goroutines are in their sections
\* for one key at once, a goroutine in a section holds the lock of its key,
\* and no step of the local Write of a client's Write changes the directory
\* while another goroutine is between its re-check and its Write or Delete
C31_Sections ==
    /\ [](opts.useLock =>
            \A t, u \in HThreads, k \in HKeys :
               /\ InSection(t, k) /\ InSection(u, k) => t = u
               /\ InSection(t, k) => locks[k] = t
               /\ hy[t].pc \in Sections \ {"h_read3"} => hy[t].held)
    /\ [][opts.useLock =>
            \A t \in HClients :
               hy[t].op = "Write" /\ proc'[t] # proc[t] /\ fs' # fs
               => \A u \in HThreads \ {t} : ~PastRecheck(u, hy[t].key)]_vars

\* a worker is past its CRC re-check, about to delete the local copy, while
\* a client's Write of the key waits for the row lock
C31_Witness ==
    \E w \in Workers, t \in HClients :
        /\ opts.useLock
        /\ hy[w].pc = "u_delete" /\ hy[w].held
        /\ hy[t].op = "Write" /\ hy[t].pc = "h_wlock"
        /\ hy[t].key = hy[w].key

----------------------------------------------------------------------------
(* C32 *)

\* C32 (as claimed): a step of ScanKeys changes the data root only by
\* removing a directory without files, and a Write that ran with no other
\* Write or Delete, but with a scan, has returned nil and its value is what
\* Read returns
C32_ScanHarmless ==
    /\ [][scan' # scan /\ fs' # fs =>
            \E d \in Dirs :
               /\ fs[d].exists /\ Present(d) = {}
               /\ fs' = [fs EXCEPT ![d].exists = FALSE]]_vars
    /\ [](\A t \in LClients :
            Done(t) /\ proc[t].op = "Write" /\ Undisturbed(t)
            => /\ proc[t].err = "nil"
               /\ (/\ InFlightMut(Dir(t)) = {}
                   /\ gh[Dir(t)].lastw # NoEntry
                   /\ gh[Dir(t)].lastw[1].key = proc[t].key
                   /\ gh[Dir(t)].lastw[1].val = proc[t].val)
                  => ReadAlone(proc[t].key, proc[t].useGzip) = NewVal(t))

\* a Write that ran with no other Write or Delete has returned the error of
\* its rename, after ScanKeys removed the directory it had made
C32_WriteFails ==
    \E t \in LClients :
        /\ Done(t) /\ proc[t].op = "Write" /\ Undisturbed(t)
        /\ proc[t].err = "ENOENT"
        /\ scan.pc # "idle"

----------------------------------------------------------------------------
(* ScanKeys called again and again after a Write that stopped between its  *)
(* two renames                                                             *)

\* ScanKeys has returned and is called once more
ScanKeysAgain ==
    /\ scan.pc = "ret"
    /\ scan' = ScanCall
    /\ UNCHANGED <<fs, proc, gh, bucket, locks, hy, opts, latest, ctx, rl, eb, dk, pl>>

\* the calls made under the cancelled context have returned: the next ones
\* get a context of their own, which is not done
NewContext ==
    /\ ctx = "done"
    /\ scan.pc \in {"idle", "ret"}
    /\ \A t \in LClients : ~Running(t)
    /\ ctx' = "live"
    /\ UNCHANGED <<fs, proc, gh, bucket, locks, hy, scan, opts, latest, rl, eb, dk, pl>>

\* an empty data root
InitReap ==
    /\ InitScan
    /\ \A d \in Dirs : ~fs[d].exists

\* one Write of k1, the key being absent, whose context may be cancelled
\* while it runs, and ScanKeys called again and again
ReapNext ==
    \/ \E useGzip \in BOOLEAN :
          /\ Issued(LClients) = 0
          /\ StartOp(1, "Write", "k1", VA, useGzip)
    \/ WriteStep(1)
    \/ WCancelled(1)
    \/ Running(1) /\ Cancel
    \/ NewContext
    \/ \E keyCont \in BOOLEAN, errCont \in BOOLEAN :
          ScanKeysStart(keyCont, errCont)
    \/ ScanKeysStep
    \/ ScanKeysAgain

\* every ScanKeys call goes on until it returns, and another one follows
SpecReap ==
    /\ InitReap /\ [][ReapNext]_vars
    /\ WF_vars(\E keyCont \in BOOLEAN, errCont \in BOOLEAN :
                  ScanKeysStart(keyCont, errCont))
    /\ WF_vars(ScanKeysStep)
    /\ WF_vars(ScanKeysAgain)
    /\ WF_vars(NewContext)

----------------------------------------------------------------------------
(* C33 *)

\* the Write of k1 returned between its two renames: the data file is in
\* the entry directory, which has no key file
Orphaned ==
    /\ Done(1) /\ proc[1].op = "Write" /\ proc[1].err = "context.Canceled"
    /\ fs["d1"].exists
    /\ Present("d1") \in {{DataFilename}, {GzipDataFilename}}

\* C33 (as claimed): when the Write of an absent key stopped between the
\* rename of the data file and the rename of the key file and no Write
\* follows, the ScanKeys runs eventually remove the data file and the entry
\* directory
C33_OrphanReaped == Orphaned ~> ~fs["d1"].exists

\* C33 (amended): ScanKeys removes no file, so the data file of the stopped
\* Write and its entry directory stay through every later ScanKeys run
C33_OrphanStays ==
    /\ [][Orphaned => Orphaned']_vars
    /\ [][scan' # scan => \A d \in Dirs : fs'[d].files = fs[d].files]_vars

\* a ScanKeys run that began after the Write had stopped went through the
\* whole data root, and the data file is still there
C33_Witness ==
    /\ Orphaned
    /\ scan.pc = "ret" /\ scan.err = "nil" /\ scan.keyCont
    /\ scan.n0 = 1 /\ scan.pre = {} /\ scan.ctx = "live" /\ ctx = "live"

----------------------------------------------------------------------------
(* C34 *)

\* C34: whenever a local Write has returned, with nil, with the error of a
\* rename or with the error of its context, its staging directory does not
\* exist and holds nothing
C34_StagingRemoved ==
    \A t \in LClients :
        Done(t) /\ proc[t].op = "Write"
        => ~proc[t].tmp.exists /\ proc[t].tmp.files = {}

\* a Write whose context was cancelled after it had moved its data file out
\* of the staging directory has returned
C34_Witness ==
    \E t \in LClients :
        /\ Done(t) /\ proc[t].op = "Write"
        /\ proc[t].err = "context.Canceled"
        /\ Exists(fs[Dir(t)].files[DataName(proc[t].useGzip)])
        /\ ~Exists(fs[Dir(t)].files[KeyFilename])
        /\ ~proc[t].tmp.exists

----------------------------------------------------------------------------
(* A key that is read, uploaded and deleted, and never written by a client *)

\* hybrid.Open on a data root and a bucket left by an earlier run: k3 is
\* local or not, and in the bucket or not
InitDel ==
    /\ fs \in [Dirs -> {[exists |-> FALSE, files |-> EmptyDir],
                        Committed("k3", VA)}]
    /\ ~fs["d1"].exists
    /\ proc = [t \in Threads |-> Blank]
    /\ gh = [d \in Dirs |->
               [lastw |-> NoEntry, overl |-> FALSE, mixed |-> FALSE,
                switched |-> FALSE, del |-> {}, wr |-> {}]]
    /\ bucket \in [RemoteNames -> {Absent, File(gzipData(VA))}]
    /\ locks = [k \in HKeys |-> 0]
    /\ hy = [t \in HThreads |-> HBlank]
    /\ scan = ScanIdle
    /\ latest = [k \in HKeys |-> << >>]
    /\ ctx = "live"
    /\ rl = NewRowLock
    /\ eb = NewErrBatch
    /\ dk = NoDirCall
    /\ pl = NewPool(PoolMaxSize)
    /\ opts = DefaultOptions

\* the steps of a hybrid Read
HReadStep(t) ==
    \/ HReadLocal(t) \/ HReadBucket(t) \/ HReadLock(t) \/ HReadRecheck(t)
    \/ HReadFilled(t) \/ HReadFinal(t)

\* one client deletes k3 once, the other reads it, and the scan loop
\* uploads it
DelNext ==
    \/ \E t \in HWriters, key \in HKeys :
          hy[t].n = 0 /\ HDeleteStart(t, key)
    \/ \E t \in HReaders, key \in HKeys : HReadStart(t, key)
    \/ \E t \in HReaders : HReadStep(t)
    \/ \E t \in HWriters : HDeleteLocal(t) \/ HDeleteBucket(t)
    \/ \E w \in Workers : WorkerStep(w)
    \/ STick \/ SVisit \/ SReadKey \/ SDone
    \/ \E w \in Workers : SSend(w)
    \/ \E t \in HThreads : LocalStep(t)

SpecDel == InitDel /\ [][DelNext]_vars

----------------------------------------------------------------------------
(* C35 *)

\* C35 (as claimed): a hybrid Read of a key called after a Delete of the
\* key returned nil, no Write of the key being called at all, returns
\* NoSuchKey
C35_DeletedStaysGone ==
    \A t \in HClients :
        hy[t].pc = "ret" /\ hy[t].op = "Read" /\ hy[t].gone
        => hy[t].err = "NoSuchKey"

\* a Read called after the Delete returned nil has returned the value
C35_Resurrected ==
    \E t \in HClients :
        /\ hy[t].pc = "ret" /\ hy[t].op = "Read" /\ hy[t].gone
        /\ hy[t].err = "nil" /\ hy[t].out = VA

----------------------------------------------------------------------------
(* A key that is deleted and then written while the scan loop uploads it   *)

\* one client deletes k3 and then writes it, and the scan loop uploads it
LossNext ==
    \/ \E t \in HWriters : hy[t].n = 0 /\ HDeleteStart(t, "k3")
    \/ \E t \in HWriters : hy[t].n = 1 /\ HWriteStart(t, "k3", VA)
    \/ \E t \in HWriters : HDeleteLocal(t) \/ HDeleteBucket(t)
    \/ \E t \in HWriters : HWriteLock(t) \/ HWriteDone(t)
    \/ \E w \in Workers : WorkerStep(w)
    \/ STick \/ SVisit \/ SReadKey \/ SDone
    \/ \E w \in Workers : SSend(w)
    \/ \E t \in HWriters \cup Workers : LocalStep(t)

SpecLoss == InitDel /\ [][LossNext]_vars

----------------------------------------------------------------------------
(* C36 *)

\* the keys that may have an object in the bucket
BucketKeys == {k \in Keys : GetRemoteName(k) \in DOMAIN bucket}

\* key has an entry in the local store, or an object in the bucket
HasEntry(key) ==
    \/ ReadAlone(key, opts.useGzip).err = "nil"
    \/ Exists(bucket[GetRemoteName(key)])

\* C36 (as claimed): a key whose hybrid Write returned nil, no Delete of it
\* being called after that Write, has an entry in the local store or in the
\* bucket; a worker changes the data root only in the local Delete of
\* uploadKey, which it comes to only from its re-read under the lock, and to
\* the lock only from a bucket Write of its own that put the object of the
\* key into the bucket; an object leaves the bucket only in the bucket
\* Delete of a hybrid Delete
C36_SomeTier ==
    /\ [](\A t \in HClients :
            hy[t].pc = "ret" /\ hy[t].op = "Write" /\ hy[t].err = "nil"
            => HasEntry(hy[t].key))
    /\ [][\A w \in Workers :
            /\ proc'[w] # proc[w] /\ fs' # fs
               => hy[w].pc = "u_delete" /\ proc[w].op = "Delete"
            /\ hy'[w].pc = "u_delete" => hy[w].pc \in {"u_read2", "u_delete"}
            /\ hy'[w].pc = "u_read2" => hy[w].pc \in {"u_lock", "u_read2"}
            /\ hy'[w].pc = "u_lock" /\ hy[w].pc # "u_lock"
               => /\ hy[w].pc = "u_upload" /\ hy'[w].key = hy[w].key
                  /\ bucket'[GetRemoteName(hy[w].key)] = File(gzipData(hy[w].val))]_vars
    /\ [][\A k \in BucketKeys :
            Exists(bucket[GetRemoteName(k)]) /\ ~Exists(bucket'[GetRemoteName(k)])
            => \E t \in HClients :
                  /\ hy[t].op = "Delete" /\ hy[t].key = k
                  /\ hy[t].pc = "h_del2" /\ hy'[t].pc = "ret"]_vars

\* the Write of k3, called after the Delete returned, has returned nil, the
\* worker that had uploaded k3 before the Delete is done, and k3 is in
\* neither tier
C36_Lost ==
    \E t \in HClients :
        /\ hy[t].pc = "ret" /\ hy[t].op = "Write" /\ hy[t].err = "nil"
        /\ hy[t].key = "k3" /\ hy[t].n = 2
        /\ \A w \in Workers : hy[w].pc = "idle" /\ ~Running(w)
        /\ ~HasEntry("k3")

----------------------------------------------------------------------------
(* The row lock of the hybrid store under fair scheduling                  *)

\* every goroutine that can take a step takes one: the client goes on with
\* its operation and with the local call it is in, and the loop and its
\* workers go on as in FairCancel
FairLocks ==
    /\ FairCancel
    /\ \A t \in HWriters :
          /\ WF_vars(HClientStep(t) \/ HDeleteStep(t))
          /\ WF_vars(LocalStep(t))

\* hybrid.Open on a data root that holds k1 and k3, with a skip function
\* that skips k1
InitLocks ==
    /\ InitLoop
    /\ fs["d2"] = Committed("k3", VA)
    /\ opts.skip = {"k1"}

\* one client calls the store once while the loop runs, the bucket may
\* fail and the context may be cancelled
SpecLocks == InitLocks /\ [][LoopNext]_vars /\ FairLocks

----------------------------------------------------------------------------
(* C37 *)

\* the row locks goroutine t holds
HeldBy(t) == {k \in DOMAIN locks : locks[k] = t}

\* goroutine t is at db.locks.Lock
AtLock(t) == hy[t].pc \in {"h_lock", "h_wlock", "u_lock"}

\* C37: no goroutine of the hybrid store holds more than one row lock, none
\* holds one outside an operation, whatever the operation returned, and a
\* goroutine that came to db.locks.Lock gets past it
C37_RowLocks ==
    /\ [](\A t \in HThreads :
            /\ Cardinality(HeldBy(t)) <= 1
            /\ hy[t].pc \in {"idle", "ret", "exit"} => HeldBy(t) = {})
    /\ \A t \in HWriters \cup Workers : AtLock(t) ~> ~AtLock(t)

\* the client waits for the lock of the key a worker holds
C37_Witness ==
    \E t \in HClients, w \in Workers :
        /\ hy[t].pc = "h_wlock" /\ hy[w].pc = "u_read2"
        /\ hy[t].key = hy[w].key /\ HeldBy(w) = {hy[w].key}

----------------------------------------------------------------------------
(* Reads of a key whose Writes ran together under both preferences        *)

\* the clients write and read k1, under either compression preference
BareNext ==
    \/ \E t \in LClients, useGzip \in BOOLEAN :
          StartOp(t, "Write", "k1", VA, useGzip)
    \/ \E t \in LClients, useGzip \in BOOLEAN :
          StartOp(t, "Read", "k1", VEmpty, useGzip)
    \/ \E t \in LClients : LocalStep(t)

SpecBare == Init /\ [][BareNext]_vars

----------------------------------------------------------------------------
(* C38 *)

\* directory d holds the key file of key and neither data file
Bare(d, key) ==
    /\ fs[d].exists
    /\ fs[d].files[KeyFilename] = File(key)
    /\ ~Exists(fs[d].files[DataFilename])
    /\ ~Exists(fs[d].files[GzipDataFilename])

\* C38: a Read of a key whose directory held, all through the Read, the key
\* file of the key and neither data nor data.gz returns NoSuchKey, whichever
\* variant the handle prefers
C38_NoData ==
    [][\A t \in LClients :
          (/\ proc[t].op = "Read" /\ Running(t) /\ proc'[t].pc = "ret"
           /\ proc[t].same /\ Bare(Dir(t), proc[t].key))
          => proc'[t].err = "NoSuchKey" /\ proc'[t].out = VEmpty]_vars

\* a Read by a handle that prefers data.gz, called after two Writes that
\* ran together had left the key file without a data file, has returned
\* NoSuchKey
C38_Witness ==
    \E t \in LClients :
        /\ Done(t) /\ proc[t].op = "Read" /\ proc[t].useGzip
        /\ proc[t].err = "NoSuchKey"
        /\ Pre(t).overl /\ ~proc[t].dist /\ proc[t].same
        /\ Bare(Dir(t), proc[t].key)

----------------------------------------------------------------------------
(* Options.GetDirForKey: from the hash of a key to its entry directory     *)

charsPerLevel == 2

\* the hex characters the hashes are made of here
HexChars == {"0", "f"}

\* hex.EncodeToString(h.Sum(...)): two characters for every byte of the hash
HashStrings ==
    UNION {[1 .. n -> HexChars] :
              n \in {m \in charsPerLevel .. MaxHashChars : m % charsPerLevel = 0}}

\* the loop of GetDirForKey from its round i on: every round moves the
\* first charsPerLevel characters of hashString to the path as one level,
\* and the loop ends after dirLevel rounds or when hashString is used up;
\* slicing a string shorter than charsPerLevel panics
RECURSIVE Levels(_, _, _, _)
Levels(path, hashString, i, dirLevel) ==
    IF i >= dirLevel
    THEN [path |-> path, hashString |-> hashString, err |-> "nil"]
    ELSE IF Len(hashString) < charsPerLevel
    THEN [path |-> path, hashString |-> hashString, err |-> "panic"]
    ELSE LET p == Append(path, SubSeq(hashString, 1, charsPerLevel))
             h == SubSeq(hashString, charsPerLevel + 1, Len(hashString))
         IN IF Len(h) <= 0
            THEN [path |-> p, hashString |-> h, err |-> "nil"]
            ELSE Levels(p, h, i + 1, dirLevel)

\* mutant of GetDirForHash: what is left of hashString is made the last
\* level even when nothing is left
GetDirForHashAlwaysLast(hashString, dirLevel) ==
    LET r == Levels(<< >>, hashString, 0, dirLevel) IN
    [path |-> Append(r.path, r.hashString), err |-> r.err]

\* GetDirForKey once the key is hashed: the levels below the data root, and
\* what is left of hashString as the last level when something is left
GetDirForHash(hashString, dirLevel) ==
    LET r == Levels(<< >>, hashString, 0, dirLevel) IN
    [path |-> IF Len(r.hashString) > 0 THEN Append(r.path, r.hashString)
              ELSE r.path,
     err |-> r.err]

\* GetDirForKey is called by a store opened with dirLevel, for a key whose
\* hash is hashString
DirCall(hashString, dirLevel) ==
    /\ dk' = [hash |-> hashString, dirLevel |-> dirLevel,
              path |-> GetDirForHash(hashString, dirLevel).path,
              err |-> GetDirForHash(hashString, dirLevel).err]
    /\ UNCHANGED <<fs, proc, gh, bucket, locks, hy, scan, opts, latest, ctx,
                   rl, eb, pl>>

DirNext ==
    \E hashString \in HashStrings, dirLevel \in 0 .. MaxDirLevel :
        DirCall(hashString, dirLevel)

SpecDirs == Init /\ [][DirNext]_vars

----------------------------------------------------------------------------
(* C39 *)

Min(a, b) == IF a < b THEN a ELSE b

\* the path C39 gives for hash h and depth L: the first min(L, len(h)/2)
\* slices of two characters, then the rest of h when there is a rest
SlicedPath(h, L) ==
    LET m == Min(L, Len(h) \div 2) IN
    [i \in 1 .. m |-> SubSeq(h, 2 * i - 1, 2 * i)]
    \o (IF Len(h) > 2 * m THEN <<SubSeq(h, 2 * m + 1, Len(h))>> ELSE << >>)

\* C39: GetDirForKey returns the data root followed by the first
\* min(L, len(h)/2) two-character slices of the hash string h, one level
\* each, and by the rest of h as a last level when the rest is not empty;
\* a level L of len(h)/2 or more gives the path of L = len(h)/2
C39_HashPath ==
    dk.err # "none" =>
        /\ dk.err = "nil"
        /\ dk.path = SlicedPath(dk.hash, dk.dirLevel)
        /\ dk.dirLevel >= Len(dk.hash) \div 2 =>
              dk.path = GetDirForHash(dk.hash, Len(dk.hash) \div 2).path

\* a hash of three bytes at level 4: three levels of two characters and no
\* level after them
C39_Witness ==
    /\ dk.err = "nil" /\ Len(dk.hash) = 6 /\ dk.dirLevel = 4
    /\ dk.path = <<SubSeq(dk.hash, 1, 2), SubSeq(dk.hash, 3, 4),
                   SubSeq(dk.hash, 5, 6)>>

----------------------------------------------------------------------------
(* Pool of package pool: a linked list of resources                        *)

\* the resources passed to Put, and the one the generator passed to Get
\* makes
Resources == {1, 2}
Generated == 9

\* the resources of the nodes from node a on, following the next pointers
RECURSIVE Chain(_, _)
Chain(p, a) ==
    IF a = 0 THEN << >>
    ELSE <<p.nodes[a].resource>> \o Chain(p, p.nodes[a].next)

\* the resources stored in pool p, from head to tail
Stored(p) == Chain(p, p.head)

\* Size()
Size(p) == p.size

\* pool p after a call op(arg) that returned ret and left it as q
Called(p, q, op, arg, ret) ==
    [q EXCEPT !.op = op, !.arg = arg, !.ret = ret, !.n = p.n + 1,
              !.before = Stored(p)]

\* Get(g): on an empty pool the generator's resource is returned; else the
\* head node is unlinked and its resource returned
Get(g) ==
    /\ pl.n < MaxPoolOps
    /\ pl' = IF pl.head = 0
             THEN Called(pl, pl, "Get", 0, g)
             ELSE Called(pl, [pl EXCEPT !.head = pl.nodes[pl.head].next,
                                        !.size = @ - 1,
                                        !.tail = IF pl.size - 1 = 0 THEN 0 ELSE @],
                         "Get", 0, pl.nodes[pl.head].resource)
    /\ UNCHANGED <<fs, proc, gh, bucket, locks, hy, scan, opts, latest, ctx,
                   rl, eb, dk>>

\* mutant of Put: the pool is never full
PutUnbounded(resource) ==
    /\ pl.n < MaxPoolOps
    /\ pl' = LET newItem == Len(pl.nodes) + 1
                 linked == Append(pl.nodes,
                                  [resource |-> resource, next |-> 0])
             IN Called(pl,
                       IF pl.size + 1 = 1
                       THEN [pl EXCEPT !.size = @ + 1, !.nodes = linked,
                                       !.head = newItem, !.tail = newItem]
                       ELSE [pl EXCEPT !.size = @ + 1,
                                       !.nodes = [linked EXCEPT
                                                    ![pl.tail].next = newItem],
                                       !.tail = newItem],
                       "Put", resource, TRUE)
    /\ UNCHANGED <<fs, proc, gh, bucket, locks, hy, scan, opts, latest, ctx,
                   rl, eb, dk>>

\* Put(resource): false on a full pool; else a new node is linked after the
\* tail, or made head and tail when it is the only one
Put(resource) ==
    /\ pl.n < MaxPoolOps
    /\ pl' = IF pl.maxSize > 0 /\ pl.size >= pl.maxSize
             THEN Called(pl, pl, "Put", resource, FALSE)
             ELSE LET newItem == Len(pl.nodes) + 1
                      linked == Append(pl.nodes,
                                       [resource |-> resource, next |-> 0])
                  IN Called(pl,
                            IF pl.size + 1 = 1
                            THEN [pl EXCEPT !.size = @ + 1, !.nodes = linked,
                                            !.head = newItem, !.tail = newItem]
                            ELSE [pl EXCEPT !.size = @ + 1,
                                            !.nodes = [linked EXCEPT
                                                         ![pl.tail].next = newItem],
                                            !.tail = newItem],
                            "Put", resource, TRUE)
    /\ UNCHANGED <<fs, proc, gh, bucket, locks, hy, scan, opts, latest, ctx,
                   rl, eb, dk>>

PoolNext ==
    \/ \E resource \in Resources : Put(resource)
    \/ Get(Generated)

SpecPool == Init /\ [][PoolNext]_vars

----------------------------------------------------------------------------
(* C40 *)

\* C40: after any calls of Put and Get on a Pool with maxSize > 0, the pool
\* is the queue of the calls: a Put on fewer than maxSize resources returned
\* true and its resource is the newest, a Put on maxSize resources returned
\* false and changed nothing, a Get on a pool that held resources returned
\* the oldest and took it out, a Get on an empty pool returned the resource
\* of the generator and changed nothing; Size() is the number of resources
C40_Fifo ==
    /\ Size(pl) = Len(Stored(pl))
    /\ Len(Stored(pl)) <= pl.maxSize
    /\ pl.op = "Put" =>
          IF Len(pl.before) < pl.maxSize
          THEN pl.ret = TRUE /\ Stored(pl) = Append(pl.before, pl.arg)
          ELSE pl.ret = FALSE /\ Stored(pl) = pl.before
    /\ pl.op = "Get" =>
          IF pl.before # << >>
          THEN pl.ret = Head(pl.before) /\ Stored(pl) = Tail(pl.before)
          ELSE pl.ret = Generated /\ Stored(pl) = << >>

\* a Get has returned the older of two resources after a Put was refused on
\* the full pool
C40_Witness ==
    /\ pl.op = "Get" /\ pl.before = <<1, 2>> /\ pl.ret = 1
    /\ Stored(pl) = <<2>> /\ Size(pl) = 1
    /\ pl.n = 4

====
